---- MODULE Spec2Model ----
(***************************************************************************)
(* Event chat subsystem of eventfi-backend-v2: the chat service            *)
(* (services/chat.service.ts) over its three tables, and the realtime      *)
(* gateway (websocket/chat.socket.ts).                                     *)
(*                                                                         *)
(* Time is the millisecond clock the code reads with new Date() and        *)
(* Date.now().  The model's clock advances in steps of TickMs, so every    *)
(* timestamp is a whole number of milliseconds and every comparison is the *)
(* code's own comparison on milliseconds.                                  *)
(* A message body is represented by its length, the only property of the   *)
(* content the service reads.                                              *)
(***************************************************************************)
EXTENDS Integers, Sequences, FiniteSets, TLC

\* ------------------------------------------------------------------ bounds
MaxTicks == 3
MaxMsgs == 2
MaxCalls == 2
MaxJoinTicks == 1
MaxSendTicks == 2
MaxMuteTicks == 1
MaxConns == 2
MaxJoins == 2
MaxWaits == 3
MaxOrders == 2
MaxSends == 2
MaxRaceTicks == 1
MaxSeconds == 4

TickMs == 12 * 60 * 60 * 1000

NULL == "null"
\* A timestamp column holding null.
NoTime == 0 - 1

Users == {"olu", "mia", "tom"}
Events == {"e1"}
Organizer == "olu"

\* ---------------------------------------------------------------- constants
MAX_MESSAGE_LENGTH == 1000
ChatGraceMs == 24 * 60 * 60 * 1000
OnlineWindowMs == 5 * 60 * 1000
TypingMs == 3000
HalfWindowMs == OnlineWindowMs \div 2

ROLE_PERMISSIONS ==
    [ MEMBER    |-> [canSendMessage |-> TRUE, canDeleteOwn |-> TRUE, canDeleteAny |-> FALSE,
                     canPin |-> FALSE, canMute |-> FALSE, canAnnounce |-> FALSE,
                     canChangeSettings |-> FALSE],
      MODERATOR |-> [canSendMessage |-> TRUE, canDeleteOwn |-> TRUE, canDeleteAny |-> TRUE,
                     canPin |-> TRUE, canMute |-> TRUE, canAnnounce |-> FALSE,
                     canChangeSettings |-> FALSE],
      ORGANIZER |-> [canSendMessage |-> TRUE, canDeleteOwn |-> TRUE, canDeleteAny |-> TRUE,
                     canPin |-> TRUE, canMute |-> TRUE, canAnnounce |-> TRUE,
                     canChangeSettings |-> TRUE] ]

roleOrder == [MEMBER |-> 0, MODERATOR |-> 1, ORGANIZER |-> 2]

ChatRoles == {"MEMBER", "MODERATOR", "ORGANIZER"}
TeamRoles == {"ORGANIZER", "CO_HOST", "MANAGER", "ASSISTANT"}
TeamStatuses == {"ACTIVE", "PENDING"}

\* -------------------------------------------------------------------- state
VARIABLES
    now,          \* the clock, in ms
    events,       \* Event rows: eventId -> [organizerId, endDate]
    team,         \* EventTeamMember rows: a set of [eventId, userId, role, status]
    tickets,      \* <<eventId, userId>> with an attendee of a CONFIRMED order
    orders,       \* BookingOrder rows, a sequence; a row's id is its index
    chats,        \* EventChat rows: a set; a chat's id is its eventId (the two are 1:1)
    members,      \* ChatMember rows, a sequence; a row's id is its index
    messages,     \* ChatMessage rows, a sequence; a row's id is its index
    calls,        \* getOrJoinChat calls in flight: call id -> locals of the call
    sends,        \* sendMessage calls in flight: call id -> locals of the call
    last,         \* the answer of the getOrJoinChat request that completed last
    socks,        \* the websocket connections: socket id -> user, eventId, handler position
    userSockets,       \* the userSockets map: userId -> socket ids (no key = empty set)
    roomOnlineUsers,   \* the roomOnlineUsers map: room -> userIds (no key = empty set)
    rooms,        \* socket.io's rooms: room -> the socket ids joined to it
    out           \* the events the last socket step emitted

vars == <<now, events, team, tickets, orders, chats, members, messages, calls, sends, last,
          socks, userSockets, roomOnlineUsers, rooms, out>>

sockVars == <<socks, userSockets, roomOnlineUsers, rooms, out>>

\* The stored state the service reads and writes, as one value.
DB ==
    [events |-> events, team |-> team, tickets |-> tickets,
     chats |-> chats, members |-> members, messages |-> messages]

CallIds == 1..MaxCalls

SendIds == 1..MaxSends

\* ------------------------------------------------------------ table access
\* prisma.chatMember.findUnique({ chatId_userId }): the row's id, or 0 for null.
FindMemberId(ms, chatId, userId) ==
    LET hits == {i \in 1..Len(ms) : ms[i].chatId = chatId /\ ms[i].userId = userId}
    IN  IF hits = {} THEN 0 ELSE CHOOSE i \in hits : \A j \in hits : i <= j

MemberRows(ms, chatId, userId) ==
    {i \in 1..Len(ms) : ms[i].chatId = chatId /\ ms[i].userId = userId}

\* _count.members of a chat.
CountMembers(ms, chatId) ==
    Cardinality({i \in 1..Len(ms) : ms[i].chatId = chatId})

\* prisma.eventChat.create({ data: { eventId } }) with the column defaults.
NewChatRow(e) ==
    [id |-> e, eventId |-> e, isActive |-> TRUE, slowMode |-> 0, membersOnly |-> TRUE]

\* prisma.chatMember.create with the column defaults; lastSeenAt = CURRENT_TIMESTAMP.
NewMemberRow(id, chatId, userId, role, t) ==
    [id |-> id, chatId |-> chatId, userId |-> userId, role |-> role,
     isMuted |-> FALSE, mutedUntil |-> NoTime, lastSeenAt |-> t]

\* MemberInsertRefused without the unique index on (chatId, userId).
MemberInsertRefused_NoIndex(ms, chatId, userId) ==
    FALSE

\* The unique index ChatMember_chatId_userId_key: whether an insert is refused.
MemberInsertRefused(ms, chatId, userId) ==
    MemberRows(ms, chatId, userId) # {}

\* prisma.eventChat.findUnique({ eventId }): the rows found, none for null.
FindChat(cs, e) ==
    {c \in cs : c.eventId = e}

HasChat(cs, e) == FindChat(cs, e) # {}

ChatRow(cs, e) == CHOOSE c \in cs : c.eventId = e

\* The unique index EventChat_eventId_key: whether an insert is refused.
ChatInsertRefused(cs, e) ==
    HasChat(cs, e)

\* prisma.eventChat.update({ id }, data): the row replaced.
PutChat(cs, row) ==
    {c \in cs : c.id # row.id} \cup {row}

\* ------------------------------------------------------------ getOrJoinChat
\* ResolveRole with the status filter of the team lookup left out.
ResolveRole_AnyStatus(db, e, u) ==
    IF db.events[e].organizerId = u THEN "ORGANIZER"
    ELSE LET found == {tm \in db.team : tm.eventId = e /\ tm.userId = u}
         IN  IF found # {}
             THEN LET tm == CHOOSE tm \in found : TRUE
                  IN  IF tm.role = "CO_HOST" \/ tm.role = "MANAGER" THEN "MODERATOR"
                      ELSE "MEMBER"
             ELSE "MEMBER"

\* Role resolution, lines 56-67.
ResolveRole(db, e, u) ==
    IF db.events[e].organizerId = u THEN "ORGANIZER"
    ELSE LET found == {tm \in db.team : tm.eventId = e /\ tm.userId = u
                                          /\ tm.status = "ACTIVE"}
         IN  IF found # {}
             THEN LET tm == CHOOSE tm \in found : TRUE
                  IN  IF tm.role = "CO_HOST" \/ tm.role = "MANAGER" THEN "MODERATOR"
                      ELSE "MEMBER"
             ELSE "MEMBER"

\* IsExpired with the grace period counted from the wrong instant.
IsExpired_LateGrace(endDate, t) ==
    t > endDate + 2 * ChatGraceMs

\* isExpired, lines 70-72.
IsExpired(endDate, t) ==
    t > endDate + ChatGraceMs

\* The chat is not joinable, line 74.
ChatDisabled(chat, endDate, t) ==
    ~chat.isActive \/ IsExpired(endDate, t)

\* TicketRequired with the ticket never asked for.
TicketRequired_Never(chat, role) ==
    FALSE

\* The ticket is required, line 84.
TicketRequired(chat, role) ==
    chat.membersOnly /\ role = "MEMBER"

\* prisma.attendee.findFirst({ order: { eventId, userId, status: CONFIRMED } }).
HasTicket(db, e, u) ==
    <<e, u>> \in db.tickets

\* chatMember.count({ lastSeenAt: { gte: fiveMinutesAgo } }), lines 125-128.
OnlineCount(ms, chatId, t) ==
    Cardinality({i \in 1..Len(ms) : ms[i].chatId = chatId
                                     /\ ms[i].lastSeenAt >= t - OnlineWindowMs})

\* formatChatInfo and the success literal, lines 131-141 and 510-522.
ChatInfo(chat, count, online, role, muted) ==
    [id |-> chat.id, eventId |-> chat.eventId, isActive |-> chat.isActive,
     slowMode |-> chat.slowMode, membersOnly |-> chat.membersOnly,
     memberCount |-> count, onlineCount |-> online, userRole |-> role, isMuted |-> muted]

\* A result's chat is <<>> for null, <<info>> otherwise.
NoResult == [canJoin |-> FALSE, reason |-> NULL, chat |-> <<>>]

\* The locals of a call that has not started.
IdleCall ==
    [pc |-> "idle", e |-> NULL, u |-> NULL, chat |-> NewChatRow(NULL),
     ev |-> [organizerId |-> NULL, endDate |-> 0], count |-> 0, role |-> NULL,
     memberId |-> 0, muted |-> FALSE, res |-> NoResult]

StartCall(e, u) ==
    [IdleCall EXCEPT !.pc = "findChat", !.e = e, !.u = u]

\* Lines 56-101 up to the next await, run once the chat row is in hand and the
\* role is known: the activity check, then the decision whether a ticket lookup
\* is needed.
AfterRole(c, db, role, t) ==
    LET c1 == [c EXCEPT !.role = role]
    IN  IF ChatDisabled(c.chat, c.ev.endDate, t)
        THEN [c1 EXCEPT !.pc = "done",
                        !.res = [canJoin |-> FALSE, reason |-> "CHAT_DISABLED", chat |-> <<>>]]
        ELSE IF TicketRequired(c.chat, role)
        THEN [c1 EXCEPT !.pc = "ticket"]
        ELSE [c1 EXCEPT !.pc = "findMember"]

\* Lines 56-60 after the chat row is in hand: the organizer needs no team lookup.
AfterChat(c, db, t) ==
    IF c.ev.organizerId = c.u
    THEN AfterRole(c, db, "ORGANIZER", t)
    ELSE [c EXCEPT !.pc = "team"]

\* One step of a getOrJoinChat call: from one await to the next.  Gives the
\* stored state and the call's locals after the step.
JoinStep(db, c, t) ==
    CASE c.pc = "findChat" ->
            \* lines 37-45
            IF ~HasChat(db.chats, c.e)
            THEN [db |-> db, c |-> [c EXCEPT !.pc = "createChat"]]
            ELSE LET c1 == [c EXCEPT !.chat = ChatRow(db.chats, c.e),
                                     !.ev = db.events[c.e],
                                     !.count = CountMembers(db.members, c.e)]
                 IN  [db |-> db, c |-> AfterChat(c1, db, t)]
      [] c.pc = "createChat" ->
            \* lines 47-53
            IF ChatInsertRefused(db.chats, c.e)
            THEN [db |-> db, c |-> [c EXCEPT !.pc = "failed"]]
            ELSE LET row == NewChatRow(c.e)
                     db1 == [db EXCEPT !.chats = @ \cup {row}]
                     c1  == [c EXCEPT !.chat = row, !.ev = db.events[c.e],
                                      !.count = CountMembers(db.members, c.e)]
                 IN  [db |-> db1, c |-> AfterChat(c1, db1, t)]
      [] c.pc = "team" ->
            \* lines 61-66, then 70-101
            [db |-> db, c |-> AfterRole(c, db, ResolveRole(db, c.e, c.u), t)]
      [] c.pc = "ticket" ->
            \* lines 85-98
            IF HasTicket(db, c.e, c.u)
            THEN [db |-> db, c |-> [c EXCEPT !.pc = "findMember"]]
            ELSE [db |-> db,
                  c |-> [c EXCEPT !.pc = "done",
                                  !.res = [canJoin |-> FALSE, reason |-> "NO_TICKET",
                                           chat |-> <<ChatInfo(c.chat, c.count, 0, c.role,
                                                               FALSE)>>]]]
      [] c.pc = "findMember" ->
            \* lines 104-108
            LET id == FindMemberId(db.members, c.chat.id, c.u)
            IN  IF id = 0
                THEN [db |-> db, c |-> [c EXCEPT !.pc = "createMember"]]
                ELSE [db |-> db, c |-> [c EXCEPT !.pc = "updateMember", !.memberId = id,
                                                 !.muted = db.members[id].isMuted]]
      [] c.pc = "createMember" ->
            \* lines 109-115
            IF MemberInsertRefused(db.members, c.chat.id, c.u)
            THEN [db |-> db, c |-> [c EXCEPT !.pc = "failed"]]
            ELSE LET id == Len(db.members) + 1
                     row == NewMemberRow(id, c.chat.id, c.u, c.role, t)
                 IN  [db |-> [db EXCEPT !.members = Append(@, row)],
                      c |-> [c EXCEPT !.pc = "count", !.memberId = id, !.muted = FALSE]]
      [] c.pc = "updateMember" ->
            \* lines 118-121
            [db |-> [db EXCEPT !.members[c.memberId].lastSeenAt = t],
             c |-> [c EXCEPT !.pc = "count"]]
      [] c.pc = "count" ->
            \* lines 125-144
            [db |-> db,
             c |-> [c EXCEPT !.pc = "done",
                             !.res = [canJoin |-> TRUE, reason |-> NULL,
                                      chat |-> <<ChatInfo(c.chat, c.count,
                                                          OnlineCount(db.members, c.chat.id, t),
                                                          c.role, c.muted)>>]]]
      [] OTHER -> [db |-> db, c |-> c]

CallEnded(c) == c.pc \in {"done", "failed"}

\* A getOrJoinChat call run from its start to its return with no other
\* operation in between.
RECURSIVE JoinRun(_, _, _)
JoinRun(db, c, t) ==
    IF CallEnded(c) THEN [db |-> db, c |-> c]
    ELSE LET r == JoinStep(db, c, t) IN JoinRun(r.db, r.c, t)

GetOrJoinChat(db, e, u, t) == JoinRun(db, StartCall(e, u), t)

\* -------------------------------------------------------------- sendMessage
Fail(db, code) == [db |-> db, code |-> code, id |-> 0]

\* TooLong with the limit off by one.
TooLong_OffByOne(content) ==
    content > MAX_MESSAGE_LENGTH + 1

\* Line 286.
TooLong(content) ==
    content > MAX_MESSAGE_LENGTH

\* MuteInForce with the expiry of the mute ignored.
MuteInForce_NoExpiry(member, t) ==
    member.isMuted

\* Lines 302-303: the member is muted and the mute has not run out.
MuteInForce(member, t) ==
    member.isMuted /\ (member.mutedUntil = NoTime \/ member.mutedUntil > t)

\* Lines 307-310: the lazy clearing of a mute that has run out.
ClearMute(ms, id) ==
    [ms EXCEPT ![id].isMuted = FALSE, ![id].mutedUntil = NoTime]

\* AnnounceRefused with the moderators allowed to announce.
AnnounceRefused_ModeratorsMay(role, type) ==
    type = "ANNOUNCEMENT" /\ role = "MEMBER"

\* Line 314.
AnnounceRefused(role, type) ==
    type = "ANNOUNCEMENT" /\ ~ROLE_PERMISSIONS[role].canAnnounce

\* chatMessage.findFirst({ chatId, senderId }, orderBy createdAt desc): the
\* createdAt of the sender's most recent message, or -1 when there is none.
LastMessageAt(msgs, chatId, userId) ==
    LET own == {i \in 1..Len(msgs) : msgs[i].chatId = chatId /\ msgs[i].senderId = userId}
    IN  IF own = {} THEN -1
        ELSE LET i == CHOOSE i \in own : \A j \in own : msgs[j].createdAt <= msgs[i].createdAt
             IN  msgs[i].createdAt

\* SlowModeBlocks with nothing ever refused.
SlowModeBlocks_Never(chat, role, lastAt, t) ==
    FALSE

\* SlowModeBlocks with the boundary instant still refused.
SlowModeBlocks_Inclusive(chat, role, lastAt, t) ==
    /\ chat.slowMode > 0
    /\ role = "MEMBER"
    /\ lastAt >= 0
    /\ (t - lastAt) <= chat.slowMode * 1000

\* Lines 319-330: timeSince = (now - createdAt) / 1000 seconds, refused while
\* timeSince < slowMode; stated on milliseconds.
SlowModeBlocks(chat, role, lastAt, t) ==
    /\ chat.slowMode > 0
    /\ role = "MEMBER"
    /\ lastAt >= 0
    /\ (t - lastAt) < chat.slowMode * 1000

\* The foreign key ChatMessage_replyToId_fkey: replyToId names a stored message.
ReplyTargetMissing(msgs, replyToId) ==
    replyToId # 0 /\ replyToId \notin 1..Len(msgs)

NewMessageRow(id, chatId, userId, content, type, replyToId, t) ==
    [id |-> id, chatId |-> chatId, senderId |-> userId, content |-> content, type |-> type,
     replyToId |-> replyToId, isPinned |-> FALSE, isDeleted |-> FALSE, deletedBy |-> NULL,
     createdAt |-> t]

\* Lines 279-372.  replyToId 0 stands for an absent replyToId.
SendMessage(db, e, u, content, type, replyToId, t) ==
    IF TooLong(content) THEN Fail(db, "MESSAGE_TOO_LONG")
    ELSE IF ~HasChat(db.chats, e) THEN Fail(db, "CHAT_NOT_FOUND")
    ELSE IF ~ChatRow(db.chats, e).isActive THEN Fail(db, "CHAT_DISABLED")
    ELSE LET chat == ChatRow(db.chats, e)
             mid  == FindMemberId(db.members, chat.id, u)
         IN  IF mid = 0 THEN Fail(db, "NOT_AUTHORIZED")
             ELSE LET member == db.members[mid]
                  IN  IF MuteInForce(member, t) THEN Fail(db, "USER_MUTED")
                      ELSE LET db1 == IF member.isMuted
                                      THEN [db EXCEPT !.members = ClearMute(@, mid)]
                                      ELSE db
                           IN  IF AnnounceRefused(member.role, type)
                               THEN Fail(db1, "NOT_AUTHORIZED")
                               ELSE IF SlowModeBlocks(chat, member.role,
                                                      LastMessageAt(db1.messages, chat.id, u), t)
                               THEN Fail(db1, "SLOW_MODE")
                               ELSE IF ReplyTargetMissing(db1.messages, replyToId)
                               THEN Fail(db1, "ERROR")
                               ELSE LET id  == Len(db1.messages) + 1
                                        row == NewMessageRow(id, chat.id, u, content, type,
                                                             replyToId, t)
                                    IN  [db |-> [db1 EXCEPT !.messages = Append(@, row),
                                                            !.members[mid].lastSeenAt = t],
                                         code |-> "OK", id |-> id]

\* The locals of a sendMessage call that has not started; `sock` is the
\* connection whose chat:message handler made the call, 0 for a REST request.
IdleSend ==
    [pc |-> "idle", e |-> NULL, u |-> NULL, content |-> 0, type |-> NULL, replyToId |-> 0,
     sock |-> 0, chat |-> NewChatRow(NULL), member |-> NewMemberRow(0, NULL, NULL, NULL, 0),
     lastAt |-> 0 - 1, id |-> 0, code |-> NULL]

\* Line 286, before the first await.
StartSend(e, u, content, type, replyToId, sock) ==
    LET c == [IdleSend EXCEPT !.e = e, !.u = u, !.content = content, !.type = type,
                              !.replyToId = replyToId, !.sock = sock]
    IN  IF TooLong(content) THEN [c EXCEPT !.pc = "failed", !.code = "MESSAGE_TOO_LONG"]
        ELSE [c EXCEPT !.pc = "findChat"]

Refuse(db, c, code) ==
    [db |-> db, c |-> [c EXCEPT !.pc = "failed", !.code = code]]

\* Lines 313-319 up to the next await, on the member row the call has read.
AfterMute(db, c) ==
    IF AnnounceRefused(c.member.role, c.type) THEN Refuse(db, c, "NOT_AUTHORIZED")
    ELSE IF c.chat.slowMode > 0 /\ c.member.role = "MEMBER"
    THEN [db |-> db, c |-> [c EXCEPT !.pc = "lastMessage"]]
    ELSE [db |-> db, c |-> [c EXCEPT !.pc = "create"]]

\* sendMessage from one await to the next, lines 288-352.
SendStep(db, c, t) ==
    CASE c.pc = "findChat" ->
            \* lines 288-290
            IF ~HasChat(db.chats, c.e) THEN Refuse(db, c, "CHAT_NOT_FOUND")
            ELSE IF ~ChatRow(db.chats, c.e).isActive THEN Refuse(db, c, "CHAT_DISABLED")
            ELSE [db |-> db, c |-> [c EXCEPT !.chat = ChatRow(db.chats, c.e),
                                             !.pc = "findMember"]]
      [] c.pc = "findMember" ->
            \* lines 292-305
            LET mid == FindMemberId(db.members, c.chat.id, c.u)
            IN  IF mid = 0 THEN Refuse(db, c, "NOT_AUTHORIZED")
                ELSE LET c1 == [c EXCEPT !.member = db.members[mid]]
                     IN  IF MuteInForce(c1.member, t) THEN Refuse(db, c1, "USER_MUTED")
                         ELSE IF c1.member.isMuted
                         THEN [db |-> db, c |-> [c1 EXCEPT !.pc = "clearMute"]]
                         ELSE AfterMute(db, c1)
      [] c.pc = "clearMute" ->
            \* lines 307-310
            AfterMute([db EXCEPT !.members = ClearMute(@, c.member.id)], c)
      [] c.pc = "lastMessage" ->
            \* lines 320-329
            LET lastAt == LastMessageAt(db.messages, c.chat.id, c.u)
            IN  IF SlowModeBlocks(c.chat, c.member.role, lastAt, t)
                THEN Refuse(db, [c EXCEPT !.lastAt = lastAt], "SLOW_MODE")
                ELSE [db |-> db, c |-> [c EXCEPT !.lastAt = lastAt, !.pc = "create"]]
      [] c.pc = "create" ->
            \* lines 332-346
            IF ReplyTargetMissing(db.messages, c.replyToId) THEN Refuse(db, c, "ERROR")
            ELSE LET id == Len(db.messages) + 1
                     row == NewMessageRow(id, c.chat.id, c.u, c.content, c.type,
                                          c.replyToId, t)
                 IN  [db |-> [db EXCEPT !.messages = Append(@, row)],
                      c |-> [c EXCEPT !.id = id, !.pc = "seen"]]
      [] c.pc = "seen" ->
            \* lines 349-352
            [db |-> [db EXCEPT !.members[c.member.id].lastSeenAt = t],
             c |-> [c EXCEPT !.pc = "done", !.code = "OK"]]
      [] OTHER -> [db |-> db, c |-> c]

SendEnded(c) == c.pc \in {"done", "failed"}

\* ---------------------------------------------------------- moderateMessage
\* CanDelete with the ownership of the message ignored.
CanDelete_IgnoresOwner(role, isOwn) ==
    ROLE_PERMISSIONS[role].canDeleteOwn

\* Line 397.
CanDelete(role, isOwn) ==
    IF isOwn THEN ROLE_PERMISSIONS[role].canDeleteOwn ELSE ROLE_PERMISSIONS[role].canDeleteAny

\* Line 409.
CanPin(role) ==
    ROLE_PERMISSIONS[role].canPin

\* Lines 400-403.
DeleteUpdate(msgs, id, u) ==
    [msgs EXCEPT ![id].isDeleted = TRUE, ![id].deletedBy = u]

\* Lines 411-414.
PinUpdate(msgs, id, action) ==
    [msgs EXCEPT ![id].isPinned = (action = "pin")]

\* Lines 377-420.
ModerateMessage(db, e, messageId, u, action) ==
    IF ~HasChat(db.chats, e) THEN Fail(db, "CHAT_NOT_FOUND")
    ELSE LET chat == ChatRow(db.chats, e)
             mid  == FindMemberId(db.members, chat.id, u)
         IN  IF mid = 0 THEN Fail(db, "NOT_AUTHORIZED")
             ELSE IF messageId \notin 1..Len(db.messages)
                     \/ db.messages[messageId].chatId # chat.id
             THEN Fail(db, "NOT_FOUND")
             ELSE LET role == db.members[mid].role
                      msg  == db.messages[messageId]
                  IN  IF action = "delete"
                      THEN IF ~CanDelete(role, msg.senderId = u)
                           THEN Fail(db, "NOT_AUTHORIZED")
                           ELSE [db |-> [db EXCEPT !.messages = DeleteUpdate(@, messageId, u)],
                                 code |-> "OK", id |-> messageId]
                      ELSE IF action = "pin" \/ action = "unpin"
                      THEN IF ~CanPin(role)
                           THEN Fail(db, "NOT_AUTHORIZED")
                           ELSE [db |-> [db EXCEPT !.messages = PinUpdate(@, messageId, action)],
                                 code |-> "OK", id |-> messageId]
                      ELSE Fail(db, "INVALID_ACTION")

\* ---------------------------------------------------------------- muteUser
\* Line 435.
CanMute(role) ==
    ROLE_PERMISSIONS[role].canMute

\* RankRefused with equal ranks let through.
RankRefused_PeersAllowed(targetRole, actorRole) ==
    roleOrder[targetRole] > roleOrder[actorRole]

\* Line 444: the target's rank is not below the actor's.
RankRefused(targetRole, actorRole) ==
    roleOrder[targetRole] >= roleOrder[actorRole]

\* Lines 448-461.  durationMinutes 0 unmutes.
MuteUpdate(ms, id, durationMinutes, t) ==
    IF durationMinutes = 0
    THEN [ms EXCEPT ![id].isMuted = FALSE, ![id].mutedUntil = NoTime]
    ELSE [ms EXCEPT ![id].isMuted = TRUE, ![id].mutedUntil = t + durationMinutes * 60 * 1000]

\* Lines 425-464.
MuteUser(db, e, targetUserId, actorUserId, durationMinutes, t) ==
    IF ~HasChat(db.chats, e) THEN Fail(db, "CHAT_NOT_FOUND")
    ELSE LET chat == ChatRow(db.chats, e)
             aid  == FindMemberId(db.members, chat.id, actorUserId)
         IN  IF aid = 0 THEN Fail(db, "NOT_AUTHORIZED")
             ELSE IF ~CanMute(db.members[aid].role) THEN Fail(db, "NOT_AUTHORIZED")
             ELSE LET tid == FindMemberId(db.members, chat.id, targetUserId)
                  IN  IF tid = 0 THEN Fail(db, "NOT_FOUND")
                      ELSE IF RankRefused(db.members[tid].role, db.members[aid].role)
                      THEN Fail(db, "NOT_AUTHORIZED")
                      ELSE [db |-> [db EXCEPT !.members = MuteUpdate(@, tid, durationMinutes, t)],
                            code |-> "OK", id |-> tid]

\* ---------------------------------------------------------- updateSettings
\* SettingsAllowed with the moderators let in as well.
SettingsAllowed_Moderators(db, e, u) ==
    \/ db.events[e].organizerId = u
    \/ LET mid == FindMemberId(db.members, e, u)
       IN  mid # 0 /\ db.members[mid].role \in {"ORGANIZER", "MODERATOR"}

\* Lines 477-484: the caller may change the settings.
SettingsAllowed(db, e, u) ==
    \/ db.events[e].organizerId = u
    \/ LET mid == FindMemberId(db.members, e, u)
       IN  mid # 0 /\ db.members[mid].role = "ORGANIZER"

\* Lines 469-495.  <<>> stands for an omitted field, <<v>> for the value v.
\* ret is the value returned on success, read from the updated row.
UpdateSettings(db, e, u, slowMode, isActive) ==
    IF ~HasChat(db.chats, e) THEN Fail(db, "CHAT_NOT_FOUND")
    ELSE IF ~SettingsAllowed(db, e, u) THEN Fail(db, "NOT_AUTHORIZED")
    ELSE LET c0 == ChatRow(db.chats, e)
             c1 == IF slowMode # <<>> THEN [c0 EXCEPT !.slowMode = slowMode[1]] ELSE c0
             c2 == IF isActive # <<>> THEN [c1 EXCEPT !.isActive = isActive[1]] ELSE c1
         IN  [db |-> [db EXCEPT !.chats = PutChat(@, c2)], code |-> "OK", id |-> 0,
              ret |-> [slowMode |-> c2.slowMode, isActive |-> c2.isActive]]

\* ---------------------------------------------------------- updateLastSeen
\* Lines 500-508: updateMany over the rows of (chat, user).
UpdateLastSeen(db, e, u, t) ==
    IF ~HasChat(db.chats, e) THEN db
    ELSE [db EXCEPT !.members =
            [i \in 1..Len(db.members) |->
                IF db.members[i].chatId = e /\ db.members[i].userId = u
                THEN [db.members[i] EXCEPT !.lastSeenAt = t]
                ELSE db.members[i]]]

\* -------------------------------------------------------------- getMessages
MaxPage == 100

\* Line 164: the createdAt of the cursor message; an id that names no message
\* leaves the filter undefined, which applies no filter.
CursorAt(msgs, before) ==
    IF before \in 1..Len(msgs) THEN msgs[before].createdAt ELSE NoTime

\* Lines 160-165: the rows the query may return.
Candidates(msgs, chatId, cursorAt) ==
    {i \in 1..Len(msgs) : /\ msgs[i].chatId = chatId
                          /\ ~msgs[i].isDeleted
                          /\ (cursorAt = NoTime \/ msgs[i].createdAt < cursorAt)}

Min(a, b) == IF a < b THEN a ELSE b

\* The rows of cand created after row i, and those created no earlier.
Newer(msgs, cand, i) == {j \in cand : msgs[j].createdAt > msgs[i].createdAt}
NotOlder(msgs, cand, i) == {j \in cand : msgs[j].createdAt >= msgs[i].createdAt}

\* Lines 166-167: a page of the newest rows.  Rows of equal createdAt come in
\* the order the store picks, so every page the ordering admits is a result:
\* the rows that fit together with all rows created no earlier, filled up
\* from the rows of the next createdAt.
Pages(msgs, cand, take) ==
    LET n    == Min(take, Cardinality(cand))
        sure == {i \in cand : Cardinality(NotOlder(msgs, cand, i)) <= n}
        edge == {i \in cand \ sure : Cardinality(Newer(msgs, cand, i)) < n}
    IN  {sure \cup X : X \in {Y \in SUBSET edge : Cardinality(Y) = n - Cardinality(sure)}}

\* Line 167: the rows of a page as findMany delivers them, newest first; rows
\* of equal createdAt in any order.
NewestFirst(msgs, P) ==
    LET ids == SelectSeq([i \in 1..Len(msgs) |-> i], LAMBDA i : i \in P)
    IN  IF \A i, j \in P : i # j => msgs[i].createdAt # msgs[j].createdAt
        THEN {SortSeq(ids, LAMBDA a, b : msgs[a].createdAt > msgs[b].createdAt)}
        ELSE {q \in [1..Len(ids) -> P] :
                 \A a, b \in 1..Len(ids) :
                     a < b => /\ q[a] # q[b]
                              /\ msgs[q[a]].createdAt >= msgs[q[b]].createdAt}

\* Reverse that leaves the rows newest first.
Reverse_NewestFirst(q) == q

\* Line 201: .reverse().
Reverse(q) == [r \in 1..Len(q) |-> q[Len(q) + 1 - r]]

\* Lines 204-207: q is the page as delivered, newest first.
HasMore(msgs, chatId, q) ==
    /\ q # <<>>
    /\ LET oldestMessage == q[Len(q)]
       IN  \E k \in 1..Len(msgs) : /\ msgs[k].chatId = chatId
                                   /\ ~msgs[k].isDeleted
                                   /\ msgs[k].createdAt < msgs[oldestMessage].createdAt

\* Lines 150-210.  before 0 stands for no cursor.  pages is the set of results
\* the call may give: the ids of the messages returned, the messages in the
\* order returned and the hasMore flag.
GetMessages(db, e, u, before, limit) ==
    IF ~HasChat(db.chats, e) THEN [code |-> "CHAT_NOT_FOUND", pages |-> {}]
    ELSE IF FindMemberId(db.members, e, u) = 0 THEN [code |-> "NOT_AUTHORIZED", pages |-> {}]
    ELSE LET cand == Candidates(db.messages, e, CursorAt(db.messages, before))
         IN  [code |-> "OK",
              pages |-> UNION {{[ids |-> P, messages |-> Reverse(q),
                                 hasMore |-> HasMore(db.messages, e, q)] :
                                    q \in NewestFirst(db.messages, P)} :
                                 P \in Pages(db.messages, cand, Min(limit, MaxPage))}]

\* ---------------------------------------------------------------- getMembers

\* role.toLowerCase(), line 263.
ToLowerCase(role) ==
    CASE role = "ORGANIZER" -> "organizer"
      [] role = "MODERATOR" -> "moderator"
      [] role = "MEMBER" -> "member"
      [] OTHER -> role

\* SeenSince with the window of a whole tick of the clock.
SeenSince_HalfDay(m, t) ==
    m.lastSeenAt >= t - TickMs

\* fiveMinutesAgo, line 244, and the comparison with it, lines 248, 252, 265.
SeenSince(m, t) ==
    m.lastSeenAt >= t - OnlineWindowMs

\* The where clause of the findMany, lines 250-253: the ids of the rows listed.
Listed(ms, chatId, onlineOnly, t) ==
    {i \in 1..Len(ms) : /\ ms[i].chatId = chatId
                        /\ onlineOnly => SeenSince(ms[i], t)}

\* take and orderBy, lines 254-255: the first `limit` rows by lastSeenAt, latest
\* first; rows of equal lastSeenAt come in either order.
LatestFirst(ms, I, limit) ==
    LET n == Min(limit, Cardinality(I))
    IN  {q \in [1..n -> I] :
            /\ \A a, b \in 1..n : a < b => /\ q[a] # q[b]
                                           /\ ms[q[a]].lastSeenAt >= ms[q[b]].lastSeenAt
            /\ \A i \in I : (\A a \in 1..n : q[a] # i) =>
                  \A a \in 1..n : ms[q[a]].lastSeenAt >= ms[i].lastSeenAt}

\* members.map, lines 258-267.
MemberView(m, t) ==
    [id |-> m.id, userId |-> m.userId, role |-> ToLowerCase(m.role),
     isMuted |-> m.isMuted, isOnline |-> SeenSince(m, t)]

\* getMembers, lines 240-274: the answers it may give.
GetMembers(db, e, u, onlineOnly, limit, t) ==
    IF ~HasChat(db.chats, e) THEN [code |-> "CHAT_NOT_FOUND", results |-> {}]
    ELSE LET ms == db.members
         IN  [code |-> "OK",
              results |->
                 {[members |-> [a \in DOMAIN q |-> MemberView(ms[q[a]], t)],
                   total |-> Cardinality({i \in 1..Len(ms) : ms[i].chatId = e}),
                   online |-> Cardinality({i \in 1..Len(ms) :
                                  ms[i].chatId = e /\ SeenSince(ms[i], t)})] :
                    q \in LatestFirst(ms, Listed(ms, e, onlineOnly, t), limit)}]

\* ------------------------------------------------------- events and bookings

\* EventService.create, event.service.ts lines 50-119: the event row and its
\* tickets are created; nothing else is written.
Create(db, e, userId, endDate) ==
    [db EXCEPT !.events = [x \in DOMAIN db.events \cup {e} |->
                              IF x = e THEN [organizerId |-> userId, endDate |-> endDate]
                              ELSE db.events[x]]]

\* The order row of prisma.bookingOrder.create, lines 401-418; `attendees` is
\* the number of attendee records of the order.
NewOrderRow(e, userId, total) ==
    [eventId |-> e, userId |-> userId, status |-> "PENDING", total |-> total,
     paymentStatus |-> "PENDING", attendees |-> 0]

\* BookingService.initiateOrder, lines 351-429, with the sum of the prices of
\* the items as `total`.
InitiateOrder(db, ords, userId, e, total) ==
    IF e \notin DOMAIN db.events THEN [orders |-> ords, code |-> "Event not found"]
    ELSE [orders |-> Append(ords, NewOrderRow(e, userId, total)), code |-> "OK"]

\* BookingService.confirmOrder, lines 567-637; `attendees` is the number of
\* attendees passed in. The attendee records of a CONFIRMED order are what
\* the ticket lookup of getOrJoinChat finds. A getOrJoinChat that throws is
\* caught, lines 620-625.
ConfirmOrder(db, ords, orderId, userId, attendees, t) ==
    IF orderId \notin 1..Len(ords)
    THEN [db |-> db, orders |-> ords, code |-> "Order not found"]
    ELSE LET order == ords[orderId]
         IN  IF order.userId # userId
             THEN [db |-> db, orders |-> ords, code |-> "Unauthorized"]
             ELSE IF order.status = "CONFIRMED"
             THEN [db |-> db, orders |-> ords, code |-> "Order already confirmed"]
             ELSE IF order.status # "PENDING"
             THEN [db |-> db, orders |-> ords, code |-> "Cannot confirm this order"]
             ELSE IF order.total > 0 /\ order.paymentStatus # "COMPLETED"
             THEN [db |-> db, orders |-> ords, code |-> "Payment not completed"]
             ELSE LET n == IF attendees > 0 THEN attendees ELSE order.attendees
                      row == [order EXCEPT
                                !.attendees = n,
                                !.status = "CONFIRMED",
                                !.paymentStatus = IF order.total = 0 THEN "COMPLETED" ELSE @]
                      db1 == [db EXCEPT !.tickets =
                                IF n > 0 THEN @ \cup {<<order.eventId, userId>>} ELSE @]
                      r == GetOrJoinChat(db1, order.eventId, userId, t)
                  IN  [db |-> r.db, orders |-> [ords EXCEPT ![orderId] = row],
                       code |-> "OK"]

\* ------------------------------------------------------------------ actions
Store(db) ==
    /\ chats' = db.chats
    /\ members' = db.members
    /\ messages' = db.messages

\* The answer of getOrJoinChat: the caller and canJoin / reason as one code.
Respond(u, code) ==
    last' = [user |-> u, code |-> code]

Static == UNCHANGED <<events, team, tickets, orders>>

NoResponse == [user |-> NULL, code |-> NULL]

\* The clock moves on.
Tick(maxTicks) ==
    /\ now < maxTicks * TickMs
    /\ now' = now + TickMs
    /\ UNCHANGED <<events, team, tickets, orders, chats, members, messages, calls, sends, last>>
    /\ UNCHANGED sockVars

\* GET /events/:eventId/chat, the call run to its return.
\* Time passes in steps of half the online window.
Elapse(maxWaits) ==
    /\ now < maxWaits * HalfWindowMs
    /\ now' = now + HalfWindowMs
    /\ UNCHANGED <<events, team, tickets, orders, chats, members, messages, calls, sends, last>>
    /\ UNCHANGED sockVars

Join(e, u) ==
    LET r == GetOrJoinChat(DB, e, u, now)
    IN  /\ r.c.pc = "done"
        /\ Store(r.db)
        /\ Respond(u, IF r.c.res.canJoin THEN "OK" ELSE r.c.res.reason)
        /\ Static
        /\ UNCHANGED <<now, calls, sends>>
        /\ UNCHANGED sockVars

\* POST /events/:eventId/chat/messages.
Send(e, u, content, type, replyToId) ==
    LET r == SendMessage(DB, e, u, content, type, replyToId, now)
    IN  /\ r.code = "OK" => Len(messages) < MaxMsgs
        /\ Store(r.db)
        /\ Static
        /\ UNCHANGED <<now, calls, sends, last>>
        /\ UNCHANGED sockVars

\* PATCH /events/:eventId/chat/messages/:messageId.
Moderate(e, messageId, u, action) ==
    LET r == ModerateMessage(DB, e, messageId, u, action)
    IN  /\ Store(r.db)
        /\ Static
        /\ UNCHANGED <<now, calls, sends, last>>
        /\ UNCHANGED sockVars

\* POST /events/:eventId/chat/members/:userId/mute.
\* A REST sendMessage request starts: the call runs up to its first await.
SendStart(k, e, u, content, type, replyToId) ==
    /\ sends[k].pc = "idle"
    /\ \A j \in SendIds : j < k => sends[j].pc # "idle"
    /\ sends' = [sends EXCEPT ![k] = StartSend(e, u, content, type, replyToId, 0)]
    /\ UNCHANGED <<now, events, team, tickets, orders, chats, members, messages, calls, last>>
    /\ UNCHANGED sockVars

\* A sendMessage call in flight runs from one await to the next.
SendAdvance(k) ==
    /\ sends[k].pc # "idle"
    /\ ~SendEnded(sends[k])
    /\ LET r == SendStep(DB, sends[k], now)
       IN  /\ Len(r.db.messages) <= MaxMsgs
           /\ Store(r.db)
           /\ sends' = [sends EXCEPT ![k] = r.c]
    /\ Static
    /\ UNCHANGED <<now, calls, last>>
    /\ UNCHANGED sockVars

\* The REST request is answered.
SendReturn(k) ==
    /\ SendEnded(sends[k])
    /\ sends[k].sock = 0
    /\ sends' = [sends EXCEPT ![k] = IdleSend]
    /\ Respond(sends[k].u, sends[k].code)
    /\ UNCHANGED <<now, events, team, tickets, orders, chats, members, messages, calls>>
    /\ UNCHANGED sockVars

Mute(e, target, actor, durationMinutes) ==
    LET r == MuteUser(DB, e, target, actor, durationMinutes, now)
    IN  /\ Store(r.db)
        /\ Static
        /\ UNCHANGED <<now, calls, sends, last>>
        /\ UNCHANGED sockVars

\* PATCH /events/:eventId/chat/settings.
Settings(e, u, slowMode, isActive) ==
    LET r == UpdateSettings(DB, e, u, slowMode, isActive)
    IN  /\ Store(r.db)
        /\ Static
        /\ UNCHANGED <<now, calls, sends, last>>
        /\ UNCHANGED sockVars

\* ------------------------------------------------------------ initial state
\* The event ended at time 0: its chat is in the 24 h grace period.
InitEvents == [e \in Events |-> [organizerId |-> Organizer, endDate |-> 0]]

TeamRow(e, u, role, status) ==
    [eventId |-> e, userId |-> u, role |-> role, status |-> status]

\* mia is an active co-host; tom's relation to the event varies.
TeamConfigs ==
    {{TeamRow("e1", "mia", "CO_HOST", "ACTIVE")} \cup extra :
        extra \in {{}, {TeamRow("e1", "tom", "ASSISTANT", "ACTIVE")},
                   {TeamRow("e1", "tom", "CO_HOST", "PENDING")},
                   {TeamRow("e1", "tom", "MANAGER", "ACTIVE")}}}

TicketConfigs == {{}, {<<"e1", "tom">>}}

\* No connection has been made; the maps and rooms are empty.
Conns == 1..MaxConns
SockEvents == {"e1", "e2"}
SockUsers == {"olu", "tom"}

\* The chat:join handlers one connection may have between two awaits.
JoinSlots == 1..MaxJoins

\* A chat:join handler that is not running, and one that is: its position,
\* the event asked for and the answer of getOrJoinChat.
NoJoin == [pc |-> "idle", req |-> NULL, canJoin |-> FALSE, reason |-> NULL]

\* A chat:message handler that is not running, and one that is: the chat it
\* sent to and the outcome of sendMessage.
NoMsg == [pc |-> "idle", chat |-> NULL, id |-> 0, code |-> NULL]

\* typingTimeout, line 164: the timer of the connection, with the room its
\* callback has captured and the time it is due; no timer is due at NoTime.
NoTimer == [room |-> NULL, due |-> NoTime]

NewSock == [user |-> NULL, state |-> "new", eventId |-> NULL,
            joins |-> [j \in JoinSlots |-> NoJoin], msg |-> NoMsg, typing |-> NoTimer]

InitSockets ==
    /\ socks = [k \in Conns |-> NewSock]
    /\ userSockets = [u \in Users |-> {}]
    /\ roomOnlineUsers = [e \in SockEvents |-> {}]
    /\ rooms = [e \in SockEvents |-> {}]
    /\ out = {}

InitStore ==
    /\ InitSockets
    /\ now = 0
    /\ orders = <<>>
    /\ chats = {}
    /\ members = <<>>
    /\ messages = <<>>
    /\ calls = [k \in CallIds |-> IdleCall]
    /\ sends = [k \in SendIds |-> IdleSend]
    /\ last = NoResponse

\* --------------------------------------------------- joining, run to completion
InitGate ==
    /\ InitStore
    /\ events = InitEvents
    /\ team \in TeamConfigs
    /\ tickets \in TicketConfigs

NextGate ==
    \/ \E u \in Users : Join("e1", u)
    \/ \E a \in {<<>>, <<TRUE>>, <<FALSE>>} : Settings("e1", Organizer, <<>>, a)
    \/ Tick(MaxTicks)

SpecGate == InitGate /\ [][NextGate]_vars

\* ------------------------------------------- joining, step by step, overlapping
\* A getOrJoinChat call arrives; calls are numbered in the order they arrive.
CallStart(k, e, u) ==
    /\ calls[k].pc = "idle"
    /\ \A j \in CallIds : j < k => calls[j].pc # "idle"
    /\ calls' = [calls EXCEPT ![k] = StartCall(e, u)]
    /\ UNCHANGED <<now, events, team, tickets, orders, chats, members, messages, sends, last>>
    /\ UNCHANGED sockVars

\* A call in flight runs from one await to the next.
CallStep(k) ==
    /\ calls[k].pc # "idle"
    /\ ~CallEnded(calls[k])
    /\ LET r == JoinStep(DB, calls[k], now)
       IN  /\ Store(r.db)
           /\ calls' = [calls EXCEPT ![k] = r.c]
    /\ Static
    /\ UNCHANGED <<now, sends, last>>
    /\ UNCHANGED sockVars

\* The callers of the overlapping calls.
JoinUsers == {"olu", "tom"}

\* Every user is eligible: mia is an active co-host, tom holds a ticket.
InitJoin ==
    /\ InitStore
    /\ events = InitEvents
    /\ team = {TeamRow("e1", "mia", "CO_HOST", "ACTIVE")}
    /\ tickets = {<<"e1", "tom">>}

NextJoin ==
    \/ \E k \in CallIds, u \in JoinUsers : CallStart(k, "e1", u)
    \/ \E k \in CallIds : CallStep(k)
    \/ Tick(MaxJoinTicks)

SpecJoin == InitJoin /\ [][NextJoin]_vars

\* ------------------------------------------------ sending, muting, slow mode
\* One tick of the clock, as a slow-mode interval in seconds and as a mute
\* duration in minutes.
TickSeconds == TickMs \div 1000
TickMinutes == TickMs \div (60 * 1000)

\* Lengths of the message bodies sent: a short one and one past the limit.
SendLengths == {1, MAX_MESSAGE_LENGTH + 1}
SendTypes == {"TEXT", "ANNOUNCEMENT"}
MuteDurations == {0, TickMinutes}
SlowModes == {0, TickSeconds}

\* The store after the given getOrJoinChat calls <<event, user>>, made one
\* after the other at time 0.
RECURSIVE JoinEach(_, _)
JoinEach(db, js) ==
    IF js = <<>> THEN db
    ELSE JoinEach(GetOrJoinChat(db, Head(js)[1], Head(js)[2], 0).db, Tail(js))

EmptyStore(evs, teamRows) ==
    [events |-> [e \in evs |-> [organizerId |-> Organizer, endDate |-> 0]],
     team |-> teamRows, tickets |-> {<<"e1", "tom">>},
     chats |-> {}, members |-> <<>>, messages |-> <<>>]

InitFrom(db) ==
    /\ InitSockets
    /\ now = 0
    /\ events = db.events
    /\ team = db.team
    /\ tickets = db.tickets
    /\ orders = <<>>
    /\ chats = db.chats
    /\ members = db.members
    /\ messages = db.messages
    /\ calls = [k \in CallIds |-> IdleCall]
    /\ sends = [k \in SendIds |-> IdleSend]
    /\ last = NoResponse

\* olu, mia and tom, in this order, have joined the chat of e1.
InitJoined(teamRows) ==
    InitFrom(JoinEach(EmptyStore(Events, teamRows),
                      <<(<<"e1", "olu">>), (<<"e1", "mia">>), (<<"e1", "tom">>)>>))

MiaCoHost == {TeamRow("e1", "mia", "CO_HOST", "ACTIVE")}
TomManager == {TeamRow("e1", "tom", "MANAGER", "ACTIVE")}

\* Slow mode: the organizer sets the interval, everyone sends.
InitSlow == InitJoined(MiaCoHost)

NextSlow ==
    \/ \E u \in Users : Send("e1", u, 1, "TEXT", 0)
    \/ \E s \in SlowModes : Settings("e1", Organizer, <<s>>, <<>>)
    \/ Tick(MaxSendTicks)

SpecSlow == InitSlow /\ [][NextSlow]_vars

\* Sending under mutes: the moderator and the organizer mute tom, the organizer
\* switches the chat and its slow mode.
InitSend == InitJoined(MiaCoHost)

NextSend ==
    \/ \E u \in {"mia", "tom"}, n \in SendLengths, ty \in SendTypes : Send("e1", u, n, ty, 0)
    \/ \E a \in {"olu", "mia"}, d \in MuteDurations : Mute("e1", "tom", a, d)
    \/ \E s \in SlowModes : Settings("e1", Organizer, <<s>>, <<>>)
    \/ \E b \in BOOLEAN : Settings("e1", Organizer, <<>>, <<b>>)
    \/ Tick(MaxSendTicks)

SpecSend == InitSend /\ [][NextSend]_vars

\* Muting: every member tries to mute every member; tom is a plain member or
\* a second moderator.
InitMute ==
    \/ InitJoined(MiaCoHost)
    \/ InitJoined(MiaCoHost \cup TomManager)

NextMute ==
    \/ \E a \in Users, t \in Users, d \in MuteDurations : Mute("e1", t, a, d)
    \/ \E u \in Users : Join("e1", u)
    \/ Tick(MaxMuteTicks)

SpecMute == InitMute /\ [][NextMute]_vars

\* Moderation: tom and mia send, everyone tries every action on every message.
ModSends == {<<"tom", 1>>, <<"tom", 2>>, <<"mia", 1>>}
ModActions == {"delete", "pin", "unpin"}

InitMod == InitJoined(MiaCoHost)

NextMod ==
    \/ \E sd \in ModSends : Send("e1", sd[1], sd[2], "TEXT", 0)
    \/ \E u \in Users, i \in 1..MaxMsgs, a \in ModActions : Moderate("e1", i, u, a)

SpecMod == InitMod /\ [][NextMod]_vars

\* After the event: everyone has joined, the clock runs past the end of the
\* grace period, the organizer switches the chat off and on.
InitExpiry == InitJoined(MiaCoHost)

NextExpiry ==
    \/ \E u \in Users : Join("e1", u)
    \/ \E u \in Users : Send("e1", u, 1, "TEXT", 0)
    \/ \E b \in BOOLEAN : Settings("e1", Organizer, <<>>, <<b>>)
    \/ Tick(MaxTicks)

SpecExpiry == InitExpiry /\ [][NextExpiry]_vars

\* Replies across two chats: olu is in both, tom in the chat of e1; a reply
\* names any message id, stored or not.
ReplySenders == {"olu", "tom"}

InitReply ==
    InitFrom(JoinEach(EmptyStore(SockEvents, MiaCoHost),
                      <<(<<"e1", "olu">>), (<<"e2", "olu">>), (<<"e1", "tom">>)>>))

NextReply ==
    \/ \E e \in SockEvents, u \in ReplySenders, r \in 0..MaxMsgs : Send(e, u, 1, "TEXT", r)
    \/ Tick(MaxSendTicks)

SpecReply == InitReply /\ [][NextReply]_vars

\* ------------------------------------------------------------------ the team
\* ManageService.checkEventAccess(userId, eventId, 'canManageTeam'): the
\* organizer, or an active team member whose team role carries canManageTeam.
CanManageTeam(db, e, u) ==
    \/ db.events[e].organizerId = u
    \/ \E tm \in db.team : /\ tm.eventId = e /\ tm.userId = u /\ tm.status = "ACTIVE"
                           /\ tm.role = "ORGANIZER"

\* The team rows of a user in an event.
TeamRowsOf(db, e, u) ==
    {tm \in db.team : tm.eventId = e /\ tm.userId = u}

\* TeamService.addTeamMember for an existing user: the row is ACTIVE at once.
AddTeamMember(db, e, u, target, role) ==
    IF ~CanManageTeam(db, e, u) THEN db
    ELSE IF TeamRowsOf(db, e, target) # {} THEN db
    ELSE IF db.events[e].organizerId = target THEN db
    ELSE [db EXCEPT !.team = @ \cup {TeamRow(e, target, role, "ACTIVE")}]

\* TeamService.updateTeamMember: the role of the row is replaced.
UpdateTeamMember(db, e, u, target, role) ==
    IF ~CanManageTeam(db, e, u) THEN db
    ELSE [db EXCEPT !.team = {IF tm \in TeamRowsOf(db, e, target)
                              THEN [tm EXCEPT !.role = role] ELSE tm : tm \in @}]

\* TeamService.removeTeamMember.
RemoveTeamMember(db, e, u, target) ==
    IF ~CanManageTeam(db, e, u) THEN db
    ELSE [db EXCEPT !.team = @ \ TeamRowsOf(db, e, target)]

\* A team operation changes the team table only.
TeamOnly ==
    /\ UNCHANGED <<now, events, tickets, orders, chats, members, messages, calls, sends, last>>
    /\ UNCHANGED sockVars

\* POST /events/:eventId/team.
TeamAdd(e, u, target, role) ==
    /\ team' = AddTeamMember(DB, e, u, target, role).team
    /\ TeamOnly

\* PATCH /events/:eventId/team/:memberId.
TeamUpdate(e, u, target, role) ==
    /\ team' = UpdateTeamMember(DB, e, u, target, role).team
    /\ TeamOnly

\* DELETE /events/:eventId/team/:memberId.
TeamRemove(e, u, target) ==
    /\ team' = RemoveTeamMember(DB, e, u, target).team
    /\ TeamOnly

\* The team roles an organizer hands out.
GivenRoles == {"CO_HOST", "MANAGER", "ASSISTANT"}

\* The team changes under a chat whose members have joined: the organizer and
\* mia add, promote, demote and remove; everyone joins again, tom sends, mia
\* and tom pin.
InitTeam == InitJoined(MiaCoHost)

NextTeam ==
    \/ \E u \in {"olu", "mia"}, role \in GivenRoles : TeamAdd("e1", u, "tom", role)
    \/ \E u \in {"olu", "mia"}, t \in {"mia", "tom"}, role \in GivenRoles :
          TeamUpdate("e1", u, t, role)
    \/ \E u \in {"olu", "mia"}, t \in {"mia", "tom"} : TeamRemove("e1", u, t)
    \/ \E u \in Users : Join("e1", u)
    \/ Send("e1", "tom", 1, "TEXT", 0)
    \/ \E u \in {"mia", "tom"}, a \in {"pin", "unpin"} : Moderate("e1", 1, u, a)

SpecTeam == InitTeam /\ [][NextTeam]_vars

\* Settings: every user tries every combination of supplied and omitted
\* fields; everyone joins again as time passes.
SettingsSlowModes == {<<>>, <<0>>, <<TickSeconds>>}
SettingsActives == {<<>>, <<TRUE>>, <<FALSE>>}

InitSettings == InitJoined(MiaCoHost)

NextSettings ==
    \/ \E u \in Users, s \in SettingsSlowModes, a \in SettingsActives :
          Settings("e1", u, s, a)
    \/ \E u \in Users : Join("e1", u)
    \/ Tick(MaxSendTicks)

SpecSettings == InitSettings /\ [][NextSettings]_vars

\* History: a chat that is new, or one that holds a page and one message
\* more, sent by tom one millisecond apart; mia and tom send, mia deletes.
HistorySizes == {0, MaxPage + 1}
HistoryJoins == <<(<<"e1", "mia">>), (<<"e1", "tom">>)>>

\* The store after tom has sent messages i..n, message j at time j: the
\* first half of them, then the second half.
RECURSIVE SendEach(_, _, _)
SendEach(db, i, n) ==
    IF i > n THEN db
    ELSE IF i = n THEN SendMessage(db, "e1", "tom", 1, "TEXT", 0, i).db
    ELSE LET mid  == (i + n) \div 2
             half == SendEach(db, i, mid)
         IN  IF Len(half.messages) = Len(db.messages) THEN half
             ELSE SendEach(half, mid + 1, n)

\* The messages a delete is tried on: the two oldest and the two newest.
DeleteIds == {1, 2, Len(messages) - 1, Len(messages)} \cap (1..Len(messages))

InitHistory ==
    \E n \in HistorySizes :
        LET db == SendEach(JoinEach(EmptyStore(Events, MiaCoHost), HistoryJoins), 1, n)
        IN  /\ InitSockets
            /\ now = TickMs
            /\ events = db.events
            /\ team = db.team
            /\ tickets = db.tickets
            /\ orders = <<>>
            /\ chats = db.chats
            /\ members = db.members
            /\ messages = db.messages
            /\ calls = [k \in CallIds |-> IdleCall]
            /\ sends = [k \in SendIds |-> IdleSend]
            /\ last = NoResponse

NextHistory ==
    \/ \E u \in {"mia", "tom"} : Send("e1", u, 1, "TEXT", 0)
    \/ \E i \in DeleteIds : Moderate("e1", i, "mia", "delete")
    \/ Tick(MaxTicks)

SpecHistory == InitHistory /\ [][NextHistory]_vars

\* ---------------------------------------------------------------- websocket
\* The in-memory state of the socket server, as one value.
SockState ==
    [socks |-> socks, userSockets |-> userSockets,
     roomOnlineUsers |-> roomOnlineUsers, rooms |-> rooms]

\* An emitted event: its name, the room it is about, the user it names, the
\* error code it carries and the connections it is delivered to.
Emit(ev, room, user, code, to) ==
    [ev |-> ev, room |-> room, user |-> user, code |-> code, to |-> to]

\* LeaveRoom that forgets the event id but stays in socket.io's room.
LeaveRoom_StaysInRoom(s, k) ==
    LET e == s.socks[k].eventId
        u == s.socks[k].user
    IN  IF e = NULL THEN [s |-> s, out |-> {}]
        ELSE [s |-> [s EXCEPT !.roomOnlineUsers[e] = @ \ {u},
                              !.socks[k].eventId = NULL],
              out |-> {}]

\* leaveRoom(socket, io): the socket state afterwards and what was emitted.
LeaveRoom(s, k) ==
    LET e == s.socks[k].eventId
        u == s.socks[k].user
    IN  IF e = NULL THEN [s |-> s, out |-> {}]
        ELSE LET socketsInRoom == {sid \in s.userSockets[u] : s.socks[sid].eventId = e}
             IN  [s |-> [s EXCEPT !.roomOnlineUsers[e] = @ \ {u},
                                  !.rooms[e] = @ \ {k},
                                  !.socks[k].eventId = NULL],
                  out |-> IF Cardinality(socketsInRoom) <= 1
                          THEN {Emit("chat:member:left", e, u, NULL, s.rooms[e] \ {k})}
                          ELSE {}]

PutSockets(s) ==
    /\ socks' = s.socks
    /\ userSockets' = s.userSockets
    /\ roomOnlineUsers' = s.roomOnlineUsers
    /\ rooms' = s.rooms

\* The connection is open and none of its handlers is between two awaits.
Idle(k) ==
    /\ socks[k].state = "open"
    /\ \A j \in JoinSlots : socks[k].joins[j].pc = "idle"
    /\ socks[k].msg.pc = "idle"

\* The message of the error an operation (getMessages, sendMessage,
\* moderateMessage, muteUser, updateSettings) throws for a code, word by word.
\* Any other failure is a storage fault with the message of the client library.
ErrorMessage(op, code) ==
    CASE code = "CHAT_NOT_FOUND"   -> <<"Event", "chat", "does", "not", "exist">>
      [] code = "CHAT_DISABLED"    -> <<"Chat", "is", "currently", "disabled">>
      [] code = "USER_MUTED"       -> <<"You", "are", "muted">>
      [] code = "SLOW_MODE"        -> <<"Please", "wait", "before", "sending", "another",
                                        "message:", "Ns">>
      [] code = "MESSAGE_TOO_LONG" -> <<"Max", "1000", "characters">>
      [] code = "NOT_AUTHORIZED"   -> <<"You", "cannot", "perform", "this", "action">>
      [] code = "NOT_FOUND"        -> IF op = "muteUser"
                                      THEN <<"User", "not", "found", "in", "chat">>
                                      ELSE <<"Message", "not", "found">>
      [] code = "INVALID_ACTION"   -> <<"Invalid", "action">>
      [] OTHER                     -> <<"Invalid", "prisma", "invocation">>

\* message.includes(words): the words occur in the message, one after another.
Includes(message, words) ==
    \E i \in 0..(Len(message) - Len(words)) :
        \A j \in 1..Len(words) : message[i + j] = words[j]

\* getErrorCode(message) of the socket server.
getErrorCode(message) ==
    IF Includes(message, <<"muted">>) THEN "USER_MUTED"
    ELSE IF Includes(message, <<"wait">>) THEN "SLOW_MODE"
    ELSE IF Includes(message, <<"Max">>) THEN "MESSAGE_TOO_LONG"
    ELSE IF Includes(message, <<"cannot">>) THEN "NOT_AUTHORIZED"
    ELSE IF Includes(message, <<"not", "found">>) THEN "NOT_FOUND"
    ELSE "ERROR"

\* io.on('connection'): socket ids are handed out once, in order.
Connect(k, u) ==
    /\ socks[k].state = "new"
    /\ \A j \in Conns : j < k => socks[j].state # "new"
    /\ socks' = [socks EXCEPT ![k].user = u, ![k].state = "open"]
    /\ userSockets' = [userSockets EXCEPT ![u] = @ \cup {k}]
    /\ out' = {}
    /\ UNCHANGED <<roomOnlineUsers, rooms>>
    /\ UNCHANGED <<now, events, team, tickets, orders, chats, members, messages, calls, sends, last>>

\* chat:join up to the answer of getOrJoinChat; a request without an event id
\* is answered at once.  The handler takes the first free slot j.
ChatJoinCall(k, j, e) ==
    /\ socks[k].state = "open"
    /\ socks[k].joins[j].pc = "idle"
    /\ \A i \in JoinSlots : i < j => socks[k].joins[i].pc # "idle"
    /\ IF e = NULL
       THEN /\ out' = {Emit("chat:error", NULL, socks[k].user, "INVALID_REQUEST", {k})}
            /\ UNCHANGED <<socks, chats, members, messages>>
       ELSE LET r == GetOrJoinChat(DB, e, socks[k].user, now)
            IN  /\ Store(r.db)
                /\ socks' = [socks EXCEPT ![k].joins[j] =
                                [pc |-> IF r.c.pc = "done" THEN "joining" ELSE "threw",
                                 req |-> e,
                                 canJoin |-> r.c.res.canJoin,
                                 reason |-> r.c.res.reason]]
                /\ out' = {}
    /\ Static
    /\ UNCHANGED <<userSockets, roomOnlineUsers, rooms, now, calls, sends, last>>

\* chat:join after getOrJoinChat has answered: a refusal is reported, else the
\* socket leaves the room it is in now, enters the new one and asks for the
\* history.  leaveRoom awaits nothing, so lines 85-101 run in one piece.
ChatJoinEnter(k, j) ==
    /\ socks[k].state = "open"
    /\ socks[k].joins[j].pc \in {"joining", "threw"}
    /\ LET c == socks[k].joins[j]
           e == c.req
           u == socks[k].user
       IN  IF c.pc = "threw" \/ ~c.canJoin
           THEN /\ out' = {Emit("chat:error", e, u,
                                IF c.pc = "threw" THEN "JOIN_FAILED" ELSE c.reason, {k})}
                /\ socks' = [socks EXCEPT ![k].joins[j] = NoJoin]
                /\ UNCHANGED <<userSockets, roomOnlineUsers, rooms>>
           ELSE LET l == LeaveRoom(SockState, k)
                IN  /\ PutSockets([l.s EXCEPT !.rooms[e] = @ \cup {k},
                                              !.socks[k].eventId = e,
                                              !.socks[k].joins[j] =
                                                  [NoJoin EXCEPT !.pc = "entered", !.req = e],
                                              !.roomOnlineUsers[e] = @ \cup {u}])
                    /\ out' = l.out
    /\ UNCHANGED <<now, events, team, tickets, orders, chats, members, messages, calls, sends, last>>

\* chat:join after getMessages has answered: chat:joined to the socket,
\* chat:member:joined to the rest of the room.
ChatJoinDone(k, j) ==
    /\ socks[k].state = "open"
    /\ socks[k].joins[j].pc = "entered"
    /\ LET e == socks[k].joins[j].req
           u == socks[k].user
           h == GetMessages(DB, e, u, 0, 50)
       IN  out' = IF h.code = "OK"
                  THEN {Emit("chat:joined", e, u, NULL, {k}),
                        Emit("chat:member:joined", e, u, NULL, rooms[e] \ {k})}
                  ELSE {Emit("chat:error", e, u, "JOIN_FAILED", {k})}
    /\ socks' = [socks EXCEPT ![k].joins[j] = NoJoin]
    /\ UNCHANGED <<userSockets, roomOnlineUsers, rooms>>
    /\ UNCHANGED <<now, events, team, tickets, orders, chats, members, messages, calls, sends, last>>

\* chat:leave, whatever the other handlers of the connection are waiting for.
ChatLeave(k) ==
    /\ socks[k].state = "open"
    /\ LET l == LeaveRoom(SockState, k)
       IN  PutSockets(l.s) /\ out' = l.out
    /\ UNCHANGED <<now, events, team, tickets, orders, chats, members, messages, calls, sends, last>>

\* chat:message up to the answer of sendMessage.  content is the length of the
\* trimmed content: 0 stands for a missing or blank content.
ChatMessageCall(k, content, type, replyToId) ==
    /\ socks[k].state = "open"
    /\ socks[k].msg.pc = "idle"
    /\ LET e == socks[k].eventId
           u == socks[k].user
       IN  IF e = NULL
           THEN /\ out' = {Emit("chat:error", NULL, u, "NOT_JOINED", {k})}
                /\ UNCHANGED <<socks, chats, members, messages>>
           ELSE IF content = 0
           THEN /\ out' = {Emit("chat:error", e, u, "INVALID_MESSAGE", {k})}
                /\ UNCHANGED <<socks, chats, members, messages>>
           ELSE LET r == SendMessage(DB, e, u, content, type, replyToId, now)
                IN  /\ r.code = "OK" => Len(messages) < MaxMsgs
                    /\ Store(r.db)
                    /\ socks' = [socks EXCEPT ![k].msg =
                                    [pc |-> "sent", chat |-> e, id |-> r.id, code |-> r.code]]
                    /\ out' = {}
    /\ Static
    /\ UNCHANGED <<userSockets, roomOnlineUsers, rooms, now, calls, sends, last>>

\* chat:message after sendMessage has answered: the message goes to the room
\* named by the socket's event id as it is now, an error to the socket alone.
ChatMessageDone(k) ==
    /\ socks[k].state = "open"
    /\ socks[k].msg.pc = "sent"
    /\ LET m == socks[k].msg
           e == socks[k].eventId
           u == socks[k].user
       IN  out' = IF m.code = "OK"
                  THEN {Emit("chat:message", e, u, NULL,
                             IF e = NULL THEN {} ELSE rooms[e])}
                  ELSE {Emit("chat:error", m.chat, u, getErrorCode(ErrorMessage("sendMessage", m.code)), {k})}
    /\ socks' = [socks EXCEPT ![k].msg = NoMsg]
    /\ UNCHANGED <<userSockets, roomOnlineUsers, rooms>>
    /\ UNCHANGED <<now, events, team, tickets, orders, chats, members, messages, calls, sends, last>>

\* chat:message with sendMessage run await by await: lines 132-152 up to the
\* first await of sendMessage. Call k is the call of connection k.
ChatMessageStart(k, content, type, replyToId) ==
    /\ socks[k].state = "open"
    /\ sends[k].pc = "idle"
    /\ LET e == socks[k].eventId
           u == socks[k].user
       IN  IF e = NULL
           THEN /\ out' = {Emit("chat:error", NULL, u, "NOT_JOINED", {k})}
                /\ UNCHANGED sends
           ELSE IF content = 0
           THEN /\ out' = {Emit("chat:error", e, u, "INVALID_MESSAGE", {k})}
                /\ UNCHANGED sends
           ELSE /\ sends' = [sends EXCEPT ![k] = StartSend(e, u, content, type, replyToId, k)]
                /\ out' = {}
    /\ UNCHANGED <<socks, userSockets, roomOnlineUsers, rooms>>
    /\ UNCHANGED <<now, events, team, tickets, orders, chats, members, messages, calls, last>>

\* Lines 154-159: sendMessage has returned or thrown; the broadcast goes to
\* the room of the connection's eventId as it is now.
ChatMessageEnd(k) ==
    /\ socks[k].state = "open"
    /\ SendEnded(sends[k])
    /\ sends[k].sock = k
    /\ LET c == sends[k]
           e == socks[k].eventId
           u == socks[k].user
       IN  out' = IF c.pc = "done"
                  THEN {Emit("chat:message", e, u, NULL,
                             IF e = NULL THEN {} ELSE rooms[e])}
                  ELSE {Emit("chat:error", c.e, u, getErrorCode(ErrorMessage("sendMessage", c.code)), {k})}
    /\ sends' = [sends EXCEPT ![k] = IdleSend]
    /\ UNCHANGED <<socks, userSockets, roomOnlineUsers, rooms>>
    /\ UNCHANGED <<now, events, team, tickets, orders, chats, members, messages, calls, last>>

\* Arm with a timer that is running left as it is.
Arm_KeepFirst(timer, room, t) ==
    IF timer.due # NoTime THEN timer ELSE [room |-> room, due |-> t + TypingMs]

\* clearTimeout and setTimeout, lines 175-178.
Arm(timer, room, t) ==
    [room |-> room, due |-> t + TypingMs]

\* chat:typing, lines 165-179.
ChatTyping(k) ==
    /\ socks[k].state = "open"
    /\ LET e == socks[k].eventId
           u == socks[k].user
       IN  IF e = NULL
           THEN /\ out' = {}
                /\ UNCHANGED socks
           ELSE /\ out' = {Emit("chat:typing", e, u, NULL, rooms[e] \ {k})}
                /\ socks' = [socks EXCEPT ![k].typing = Arm(@, e, now)]
    /\ UNCHANGED <<userSockets, roomOnlineUsers, rooms>>
    /\ UNCHANGED <<now, events, team, tickets, orders, chats, members, messages, calls, sends, last>>

\* The timer of connection k goes off, lines 176-178: chat:typing:stop goes to
\* the room the callback has captured, whatever the connection has done since.
TypingStop(k) ==
    /\ socks[k].typing.due # NoTime
    /\ socks[k].typing.due <= now
    /\ out' = {Emit("chat:typing:stop", socks[k].typing.room, socks[k].user, NULL,
                    rooms[socks[k].typing.room] \ {k})}
    /\ socks' = [socks EXCEPT ![k].typing = NoTimer]
    /\ UNCHANGED <<userSockets, roomOnlineUsers, rooms>>
    /\ UNCHANGED <<now, events, team, tickets, orders, chats, members, messages, calls, sends, last>>

\* A second passes; a timer that is due goes off first.
Second(maxSeconds) ==
    /\ now < maxSeconds * 1000
    /\ \A k \in Conns : socks[k].typing.due = NoTime \/ socks[k].typing.due > now
    /\ now' = now + 1000
    /\ UNCHANGED <<events, team, tickets, orders, chats, members, messages, calls, sends, last>>
    /\ UNCHANGED sockVars

\* chat:read, lines 184-187: the heartbeat; nothing is emitted.
ChatRead(k) ==
    /\ socks[k].state = "open"
    /\ IF socks[k].eventId = NULL
       THEN UNCHANGED members
       ELSE members' = UpdateLastSeen(DB, socks[k].eventId, socks[k].user, now).members
    /\ out' = {}
    /\ UNCHANGED <<socks, userSockets, roomOnlineUsers, rooms>>
    /\ UNCHANGED <<now, events, team, tickets, orders, chats, messages, calls, sends, last>>

\* disconnect, taken when no handler of the connection is waiting: socket.io
\* has taken the socket out of its rooms; the handler drops the socket id from
\* userSockets and then runs leaveRoom.
Disconnect(k) ==
    /\ Idle(k)
    /\ LET s == [SockState EXCEPT !.userSockets[socks[k].user] = @ \ {k}]
           l == LeaveRoom(s, k)
       IN  /\ PutSockets([l.s EXCEPT !.socks[k].state = "closed"])
           /\ out' = l.out
    /\ UNCHANGED <<now, events, team, tickets, orders, chats, members, messages, calls, sends, last>>

\* Two events, the second without a ticket for tom; olu organizes both. olu
\* has joined both chats and tom the chat of e1.
InitSocket ==
    InitFrom(JoinEach(EmptyStore(SockEvents, MiaCoHost),
                      <<(<<"e1", "olu">>), (<<"e2", "olu">>), (<<"e1", "tom">>)>>))

\* Joins and leaves, one chat:join at a time on each connection.
NextSocket ==
    \/ \E k \in Conns, u \in SockUsers : Connect(k, u)
    \/ \E k \in Conns, e \in SockEvents \cup {NULL} : ChatJoinCall(k, 1, e)
    \/ \E k \in Conns : ChatJoinEnter(k, 1)
    \/ \E k \in Conns : ChatJoinDone(k, 1)
    \/ \E k \in Conns : ChatLeave(k)
    \/ \E k \in Conns : Disconnect(k)

SpecSocket == InitSocket /\ [][NextSocket]_vars

\* One connection of the organizer with overlapping chat:join requests.
InitRooms == InitSocket

NextRooms ==
    \/ Connect(1, Organizer)
    \/ \E j \in JoinSlots, e \in SockEvents \cup {NULL} : ChatJoinCall(1, j, e)
    \/ \E j \in JoinSlots : ChatJoinEnter(1, j)
    \/ \E j \in JoinSlots : ChatJoinDone(1, j)
    \/ ChatLeave(1)
    \/ Disconnect(1)

SpecRooms == InitRooms /\ [][NextRooms]_vars

\* Messages sent over the connections while their senders join and leave.
MessageLengths == {0, 1, MAX_MESSAGE_LENGTH + 1}

InitMessage == InitSocket

NextMessage ==
    \/ \E k \in Conns, u \in SockUsers : Connect(k, u)
    \/ \E k \in Conns, e \in SockEvents : ChatJoinCall(k, 1, e)
    \/ \E k \in Conns : ChatJoinEnter(k, 1)
    \/ \E k \in Conns : ChatJoinDone(k, 1)
    \/ \E k \in Conns : ChatLeave(k)
    \/ \E k \in Conns, n \in MessageLengths : ChatMessageCall(k, n, "TEXT", 0)
    \/ \E k \in Conns : ChatMessageDone(k)

SpecMessage == InitMessage /\ [][NextMessage]_vars

\* Joining and sending, by mia over REST and by tom over one connection: tom
\* holds a ticket for e1 and none for e2, mia is a co-host of e1 and nothing
\* in e2, the organizer switches the chat of e1 off and on.
InitMember == InitFrom(EmptyStore(SockEvents, MiaCoHost))

NextMember ==
    \/ \E e \in SockEvents : Join(e, "mia")
    \/ \E e \in SockEvents : Send(e, "mia", 1, "TEXT", 0)
    \/ \E b \in BOOLEAN : Settings("e1", Organizer, <<>>, <<b>>)
    \/ Connect(1, "tom")
    \/ \E e \in SockEvents : ChatJoinCall(1, 1, e)
    \/ ChatJoinEnter(1, 1)
    \/ ChatJoinDone(1, 1)
    \/ ChatMessageCall(1, 1, "TEXT", 0)
    \/ ChatMessageDone(1)

SpecMember == InitMember /\ [][NextMember]_vars

\* Presence: the three members have joined; they rejoin, send and, on a
\* connection of the organizer, send heartbeats while time passes in steps of
\* half the online window.
InitPresence == InitJoined(MiaCoHost)

NextPresence ==
    \/ Join("e1", "tom")
    \/ Send("e1", "mia", 1, "TEXT", 0)
    \/ Connect(1, Organizer)
    \/ ChatJoinCall(1, 1, "e1")
    \/ ChatJoinEnter(1, 1)
    \/ ChatJoinDone(1, 1)
    \/ ChatRead(1)
    \/ Elapse(MaxWaits)

SpecPresence == InitPresence /\ [][NextPresence]_vars

\* Events and bookings: an organizer creates the event, users book and confirm
\* orders, with and without attendee records, and join the chat.
CreateEvent(e, userId) ==
    /\ e \notin DOMAIN events
    /\ events' = Create(DB, e, userId, now).events
    /\ UNCHANGED <<now, team, tickets, orders, chats, members, messages, calls, sends, last>>
    /\ UNCHANGED sockVars

Book(userId, e, total) ==
    LET r == InitiateOrder(DB, orders, userId, e, total)
    IN  /\ r.code = "OK" => Len(orders) < MaxOrders
        /\ orders' = r.orders
        /\ Respond(userId, r.code)
        /\ UNCHANGED <<now, events, team, tickets, chats, members, messages, calls, sends>>
        /\ UNCHANGED sockVars

Confirm(orderId, userId, attendees) ==
    LET r == ConfirmOrder(DB, orders, orderId, userId, attendees, now)
    IN  /\ Store(r.db)
        /\ tickets' = r.db.tickets
        /\ orders' = r.orders
        /\ Respond(userId, r.code)
        /\ UNCHANGED <<now, events, team, calls, sends>>
        /\ UNCHANGED sockVars

\* A getOrJoinChat request for an event that exists.
JoinEvent(e, u) ==
    /\ e \in DOMAIN events
    /\ Join(e, u)

BookingUsers == {"mia", "tom"}

InitBooking ==
    /\ InitStore
    /\ events = [e \in {} |-> [organizerId |-> NULL, endDate |-> 0]]
    /\ team = {}
    /\ tickets = {}

NextBooking ==
    \/ CreateEvent("e1", Organizer)
    \/ \E u \in BookingUsers, total \in {0, 1} : Book(u, "e1", total)
    \/ \E o \in 1..MaxOrders, u \in BookingUsers, n \in {0, 1} : Confirm(o, u, n)
    \/ \E u \in {Organizer, "tom"} : JoinEvent("e1", u)
    \/ Tick(MaxTicks)

SpecBooking == InitBooking /\ [][NextBooking]_vars

\* Overlapping sends of one plain member under slow mode: the organizer has
\* set the slow mode and tom sends through several requests at once.
InitSoft ==
    InitFrom(UpdateSettings(JoinEach(EmptyStore(Events, MiaCoHost),
                                     <<(<<"e1", "olu">>), (<<"e1", "tom">>)>>),
                            "e1", Organizer, <<TickSeconds>>, <<>>).db)

NextSoft ==
    \/ \E k \in SendIds : SendStart(k, "e1", "tom", 1, "TEXT", 0)
    \/ \E k \in SendIds : SendAdvance(k)
    \/ \E k \in SendIds : SendReturn(k)
    \/ Tick(MaxRaceTicks)

SpecSoft == InitSoft /\ [][NextSoft]_vars

\* A send of the muted member overlapping with muteUser: the organizer mutes
\* and unmutes tom while tom's sends are in flight and time passes.
InitUnmute == InitJoined(MiaCoHost)

NextUnmute ==
    \/ \E k \in SendIds : SendStart(k, "e1", "tom", 1, "TEXT", 0)
    \/ \E k \in SendIds : SendAdvance(k)
    \/ \E k \in SendIds : SendReturn(k)
    \/ \E d \in MuteDurations : Mute("e1", "tom", Organizer, d)
    \/ Tick(MaxRaceTicks)

SpecUnmute == InitUnmute /\ [][NextUnmute]_vars

\* Two connections in one room, each sending with sendMessage run await by
\* await.
InitOrder ==
    InitFrom(JoinEach(EmptyStore(Events, MiaCoHost),
                      <<(<<"e1", "olu">>), (<<"e1", "tom">>)>>))

NextOrder ==
    \/ Connect(1, "olu")
    \/ Connect(2, "tom")
    \/ \E k \in Conns : ChatJoinCall(k, 1, "e1")
    \/ \E k \in Conns : ChatJoinEnter(k, 1)
    \/ \E k \in Conns : ChatJoinDone(k, 1)
    \/ \E k \in Conns, n \in {0, 1} : ChatMessageStart(k, n, "TEXT", 0)
    \/ \E k \in Conns : SendAdvance(k)
    \/ \E k \in Conns : ChatMessageEnd(k)

SpecOrder == InitOrder /\ [][NextOrder]_vars

\* Typing: two connections join the room of e1; the organizer's connection
\* sends chat:typing, leaves and rejoins while the seconds pass.
InitTyping ==
    InitFrom(JoinEach(EmptyStore(Events, MiaCoHost),
                      <<(<<"e1", "olu">>), (<<"e1", "tom">>)>>))

NextTyping ==
    \/ Connect(1, "olu")
    \/ Connect(2, "tom")
    \/ \E k \in Conns : ChatJoinCall(k, 1, "e1")
    \/ \E k \in Conns : ChatJoinEnter(k, 1)
    \/ \E k \in Conns : ChatJoinDone(k, 1)
    \/ ChatLeave(1)
    \/ ChatTyping(1)
    \/ TypingStop(1)
    \/ Second(MaxSeconds)

SpecTyping == InitTyping /\ [][NextTyping]_vars

\* -------------------------------------------------------------- controllers
\* The status of a failed POST .../chat/messages, from the error's message.
SendStatusCode(message) ==
    IF Includes(message, <<"not", "found">>) THEN 404
    ELSE IF Includes(message, <<"muted">>) \/ Includes(message, <<"wait">>) THEN 429
    ELSE IF Includes(message, <<"cannot">>) \/ Includes(message, <<"Max">>) THEN 400
    ELSE 500

\* The status of a failed request of the other endpoints that map at all.
StatusCode(message) ==
    IF Includes(message, <<"not", "found">>) THEN 404
    ELSE IF Includes(message, <<"cannot">>) THEN 403
    ELSE 500

\* What a controller answers: the HTTP status and the code of the failure.
Answer(status, code) == [status |-> status, code |-> code]

\* ChatController.getMessages.
ControllerGetMessages(db, e, u, before, limit) ==
    LET r == GetMessages(db, e, u, before, limit)
    IN  IF r.code = "OK" THEN Answer(200, "OK")
        ELSE Answer(StatusCode(ErrorMessage("getMessages", r.code)), r.code)

\* ChatController.sendMessage; content 0 is a missing or blank content.
ControllerSendMessage(db, e, u, content, type, replyToId, t) ==
    IF content = 0 THEN Answer(400, "INVALID_MESSAGE")
    ELSE LET r == SendMessage(db, e, u, content, type, replyToId, t)
         IN  IF r.code = "OK" THEN Answer(201, "OK")
             ELSE Answer(SendStatusCode(ErrorMessage("sendMessage", r.code)), r.code)

\* ChatController.moderateMessage.
ControllerModerateMessage(db, e, messageId, u, action) ==
    IF action \notin {"delete", "pin", "unpin"} THEN Answer(400, "INVALID_ACTION")
    ELSE LET r == ModerateMessage(db, e, messageId, u, action)
         IN  IF r.code = "OK" THEN Answer(200, "OK")
             ELSE Answer(StatusCode(ErrorMessage("moderateMessage", r.code)), r.code)

\* ChatController.muteUser; duration <<>> is a duration that is not a number.
ControllerMuteUser(db, e, targetUserId, actorUserId, duration, t) ==
    IF duration = <<>> THEN Answer(400, "INVALID_DURATION")
    ELSE LET r == MuteUser(db, e, targetUserId, actorUserId, duration[1], t)
         IN  IF r.code = "OK" THEN Answer(200, "OK")
             ELSE Answer(StatusCode(ErrorMessage("muteUser", r.code)), r.code)

\* ChatController.updateSettings.
ControllerUpdateSettings(db, e, u, slowMode, isActive) ==
    LET r == UpdateSettings(db, e, u, slowMode, isActive)
    IN  IF r.code = "OK" THEN Answer(200, "OK")
        ELSE Answer(StatusCode(ErrorMessage("updateSettings", r.code)), r.code)

\* The REST endpoints, called before and after the chat exists.
RestLengths == {0, 1, MAX_MESSAGE_LENGTH + 1}
RestActions == ModActions \cup {"hide"}
RestDurations == {<<>>, <<0>>, <<TickMinutes>>}

InitRest == InitFrom(EmptyStore(Events, MiaCoHost))

NextRest ==
    \/ \E u \in {"mia", "tom"} : Join("e1", u)
    \/ \E u \in {"mia", "tom"} : Send("e1", u, 1, "TEXT", 0)
    \/ \E a \in {"delete", "pin"} : Moderate("e1", 1, "mia", a)
    \/ \E d \in MuteDurations : Mute("e1", "tom", "mia", d)
    \/ \E s \in SlowModes, b \in BOOLEAN : Settings("e1", Organizer, <<s>>, <<b>>)

SpecRest == InitRest /\ [][NextRest]_vars

\* ------------------------------------------------------------------ claims
\* The role the event and team state give a user: the event's owner is the
\* organizer, an active co-host or manager a moderator, anyone else a member.
RoleByState(e, u) ==
    IF events[e].organizerId = u THEN "ORGANIZER"
    ELSE IF \E tm \in team : /\ tm.eventId = e /\ tm.userId = u /\ tm.status = "ACTIVE"
                             /\ tm.role \in {"CO_HOST", "MANAGER"}
    THEN "MODERATOR"
    ELSE "MEMBER"

\* The chat of e is switched off, or the event ended more than 24 h ago.
NotJoinable(e) ==
    \/ \E c \in chats : c.eventId = e /\ ~c.isActive
    \/ now > events[e].endDate + 24 * 60 * 60 * 1000

\* C2: whenever the chat is inactive or the event ended more than 24 h ago,
\* getOrJoinChat by any user, whatever the role, returns canJoin = false with
\* reason CHAT_DISABLED and chat = null, and leaves the membership table as it was.
C2_DisabledForAll ==
    \A e \in Events, u \in Users :
        NotJoinable(e) =>
            LET r == GetOrJoinChat(DB, e, u, now)
            IN  /\ r.c.pc = "done"
                /\ r.c.res = [canJoin |-> FALSE, reason |-> "CHAT_DISABLED", chat |-> <<>>]
                /\ r.db.members = members

\* C2 witness: the organizer, who holds a membership, was refused with
\* CHAT_DISABLED on a chat that is still switched on but past its grace period.
C2_Witness ==
    /\ last = [user |-> Organizer, code |-> "CHAT_DISABLED"]
    /\ \E c \in chats : c.eventId = "e1" /\ c.isActive
    /\ now > events["e1"].endDate + 24 * 60 * 60 * 1000
    /\ \E i \in 1..Len(members) : members[i].userId = Organizer /\ members[i].role = "ORGANIZER"

\* C3: on a joinable members-only chat, a caller resolving to plain member with
\* no confirmed ticket gets canJoin = false with reason NO_TICKET and no
\* membership is created; the organizer and a moderator get canJoin = true
\* whether or not they hold a ticket.
C3_TicketGate ==
    \A e \in Events, u \in Users :
        (~NotJoinable(e) /\ \A c \in chats : c.eventId = e => c.membersOnly) =>
            LET r == GetOrJoinChat(DB, e, u, now)
            IN  /\ (RoleByState(e, u) = "MEMBER" /\ <<e, u>> \notin tickets) =>
                        /\ r.c.pc = "done"
                        /\ ~r.c.res.canJoin
                        /\ r.c.res.reason = "NO_TICKET"
                        /\ r.db.members = members
                /\ RoleByState(e, u) \in {"ORGANIZER", "MODERATOR"} =>
                        /\ r.c.pc = "done"
                        /\ r.c.res.canJoin
                        /\ FindMemberId(r.db.members, e, u) # 0

\* C3 witness: tom, on the team but not as an active co-host or manager and
\* without a ticket, was refused with NO_TICKET, while mia joined as a moderator
\* with no ticket.
C3_Witness ==
    /\ last = [user |-> "tom", code |-> "NO_TICKET"]
    /\ \E tm \in team : tm.userId = "tom"
    /\ <<"e1", "mia">> \notin tickets
    /\ \E i \in 1..Len(members) : members[i].userId = "mia" /\ members[i].role = "MODERATOR"
    /\ \A i \in 1..Len(members) : members[i].userId # "tom"

\* Every successful call in flight or just ended names the one membership row
\* of its (chat, user).
OneRowPerCall ==
    /\ \A e \in Events, u \in Users : Cardinality(MemberRows(members, e, u)) <= 1
    /\ \A k \in CallIds :
          (calls[k].pc = "done" /\ calls[k].res.canJoin) =>
              MemberRows(members, calls[k].e, calls[k].u) = {calls[k].memberId}

\* A step creates no second row for a (chat, user) and changes nothing of a
\* stored membership but its lastSeenAt.
OnlyLastSeenBumped ==
    /\ Len(members') >= Len(members)
    /\ \A i \in 1..Len(members) :
          members'[i] = [members[i] EXCEPT !.lastSeenAt = members'[i].lastSeenAt]

\* C9: getOrJoinChat is idempotent for an eligible (event, user): whatever
\* calls have run, one after the other or overlapping, there is one membership
\* row for that (chat, user), every successful call refers to that row, and a
\* call that finds the row changes only its lastSeenAt.
C9_Idempotent ==
    []OneRowPerCall /\ [][OnlyLastSeenBumped]_vars

\* C9 witness: two calls for tom have both returned canJoin = true for the same
\* membership row, whose lastSeenAt the later one bumped past the time of
\* creation of the chat's first row.
C9_Witness ==
    /\ calls[1].pc = "done" /\ calls[2].pc = "done"
    /\ calls[1].u = "tom" /\ calls[2].u = "tom"
    /\ calls[1].res.canJoin /\ calls[2].res.canJoin
    /\ calls[1].memberId = calls[2].memberId
    /\ Cardinality(MemberRows(members, "e1", "tom")) = 1
    /\ members[calls[1].memberId].lastSeenAt = TickMs
    /\ now = TickMs

\* Connection k has left room e by chat:leave or by disconnecting.
HasLeft(k, e) ==
    /\ socks[k].eventId = e
    /\ e # NULL
    /\ ChatLeave(k) \/ Disconnect(k)

\* C1: when a connection leaves a room by chat:leave or by disconnecting,
\* chat:member:left is broadcast for its user and that room if and only if no
\* other connection of the same user is still joined to the room.
C1_LeftIffLast ==
    [][\A k \in Conns, e \in SockEvents :
          HasLeft(k, e) =>
              ((\E m \in out' : m.ev = "chat:member:left" /\ m.room = e
                                   /\ m.user = socks[k].user)
                  <=> ~(\E j \in Conns \ {k} : socks[j].user = socks[k].user
                                                  /\ j \in rooms'[e]))]_vars

\* The membership row of u in the chat of e1, as a set: empty when u has none.
RowsOf(u) ==
    {i \in 1..Len(members) : members[i].chatId = "e1" /\ members[i].userId = u}

\* The ids of the messages u has sent in the chat of e1.
OwnMessages(u) ==
    {i \in 1..Len(messages) : messages[i].chatId = "e1" /\ messages[i].senderId = u}

\* No message of u is younger than the chat's slow-mode interval.
NotSlowed(c, u) ==
    \A i \in OwnMessages(u) : now - messages[i].createdAt >= c.slowMode * 1000

\* C4: with slowMode = S > 0 on an active chat, a send by an unmuted plain
\* member who has a persisted message is refused with SLOW_MODE, and persists
\* nothing, while fewer than S seconds have passed since the member's most
\* recent message, and succeeds once S seconds have passed; a send by a
\* moderator or the organizer succeeds whatever S is.
C4_SlowMode ==
    \A c \in chats, u \in Users : \A i \in RowsOf(u) :
        (c.eventId = "e1" /\ c.isActive /\ c.slowMode > 0 /\ ~members[i].isMuted
            /\ OwnMessages(u) # {}) =>
            LET r == SendMessage(DB, "e1", u, 1, "TEXT", 0, now)
            IN  IF members[i].role = "MEMBER" /\ ~NotSlowed(c, u)
                THEN r.code = "SLOW_MODE" /\ r.db.messages = messages
                ELSE /\ r.code = "OK"
                     /\ Len(r.db.messages) = Len(messages) + 1
                     /\ r.db.messages[r.id].senderId = u

\* C4 witness: under a slow mode of one tick tom, a plain member, has sent two
\* messages exactly one interval apart, and a further send right now is
\* answered SLOW_MODE.
C4_Witness ==
    /\ \E c \in chats : c.slowMode = TickSeconds
    /\ Len(messages) = 2
    /\ messages[1].senderId = "tom" /\ messages[1].createdAt = 0
    /\ messages[2].senderId = "tom" /\ messages[2].createdAt = TickMs
    /\ now = TickMs
    /\ SendMessage(DB, "e1", "tom", 1, "TEXT", 0, now).code = "SLOW_MODE"

\* C5: on an active chat a send by a member whose membership is muted is
\* refused with USER_MUTED and changes nothing while mutedUntil is null or in
\* the future; once mutedUntil is in the past a send that slow mode does not
\* hold back succeeds, and the membership then has isMuted = false and
\* mutedUntil = null.
C5_MuteExpiry ==
    \A c \in chats, u \in Users : \A i \in RowsOf(u) :
        (c.eventId = "e1" /\ c.isActive /\ members[i].isMuted) =>
            /\ (members[i].mutedUntil = NoTime \/ members[i].mutedUntil > now) =>
                  \A ty \in SendTypes :
                      LET r == SendMessage(DB, "e1", u, 1, ty, 0, now)
                      IN  r.code = "USER_MUTED" /\ r.db = DB
            /\ (members[i].mutedUntil # NoTime /\ members[i].mutedUntil < now
                    /\ (members[i].role = "MEMBER" => NotSlowed(c, u))) =>
                  LET r == SendMessage(DB, "e1", u, 1, "TEXT", 0, now)
                  IN  /\ r.code = "OK"
                      /\ Len(r.db.messages) = Len(messages) + 1
                      /\ ~r.db.members[i].isMuted
                      /\ r.db.members[i].mutedUntil = NoTime

\* C5 witness: tom's mute ran out a tick ago, and a send by him now succeeds
\* and leaves his membership unmuted.
C5_Witness ==
    \E i \in RowsOf("tom") :
        /\ members[i].isMuted
        /\ members[i].mutedUntil = TickMs
        /\ now = 2 * TickMs
        /\ LET r == SendMessage(DB, "e1", "tom", 1, "TEXT", 0, now)
           IN  r.code = "OK" /\ ~r.db.members[i].isMuted

\* C8: a send whose content is longer than 1000 characters is refused with
\* MESSAGE_TOO_LONG and leaves the store as it was: no message, no cleared
\* mute, no lastSeenAt bump, whoever sends and whatever the chat's state.
C8_TooLong ==
    \A u \in Users, ty \in SendTypes, reply \in {0, 1} :
        LET r == SendMessage(DB, "e1", u, MAX_MESSAGE_LENGTH + 1, ty, reply, now)
        IN  r.code = "MESSAGE_TOO_LONG" /\ r.db = DB

\* C8 witness: tom holds a mute that has run out and was last seen before now,
\* so that a send would clear the mute and bump lastSeenAt; his 1001-character
\* send is answered MESSAGE_TOO_LONG.
C8_Witness ==
    \E i \in RowsOf("tom") :
        /\ members[i].isMuted
        /\ members[i].mutedUntil < now
        /\ members[i].lastSeenAt < now
        /\ SendMessage(DB, "e1", "tom", 1, "TEXT", 0, now).code = "OK"
        /\ SendMessage(DB, "e1", "tom", MAX_MESSAGE_LENGTH + 1, "TEXT", 0, now).code
              = "MESSAGE_TOO_LONG"

\* The ranks of the roles: member 0 < moderator 1 < organizer 2.
Rank(role) ==
    IF role = "MEMBER" THEN 0 ELSE IF role = "MODERATOR" THEN 1 ELSE 2

\* C7: for a target that is a member of the chat, muteUser changes the
\* target's mute state exactly when the actor is a member whose role is
\* moderator or organizer and ranks strictly above the target's role; in every
\* other case it fails with NOT_AUTHORIZED and leaves the store as it was.
C7_MuteRank ==
    \A a \in Users, t \in Users, d \in MuteDurations : \A ti \in RowsOf(t) :
        LET r == MuteUser(DB, "e1", t, a, d, now)
            allowed == \E ai \in RowsOf(a) :
                          /\ members[ai].role \in {"MODERATOR", "ORGANIZER"}
                          /\ Rank(members[ai].role) > Rank(members[ti].role)
        IN  IF allowed
            THEN /\ r.code = "OK"
                 /\ r.db.members[ti].isMuted = (d # 0)
                 /\ r.db.members[ti].mutedUntil = IF d = 0 THEN NoTime ELSE now + d * 60 * 1000
                 /\ \A j \in 1..Len(members) : j # ti => r.db.members[j] = members[j]
            ELSE r.code = "NOT_AUTHORIZED" /\ r.db = DB

\* C7 witness: tom, a plain member, carries a mute that mia, a moderator, may
\* set, while mia's attempts on the organizer, on herself and on tom as a
\* second moderator are answered NOT_AUTHORIZED.
C7_Witness ==
    /\ \E i \in RowsOf("tom") : members[i].role = "MEMBER" /\ members[i].isMuted
                                    /\ members[i].mutedUntil > now
    /\ \E i \in RowsOf("mia") : members[i].role = "MODERATOR"
    /\ MuteUser(DB, "e1", "tom", "mia", TickMinutes, now).code = "OK"
    /\ MuteUser(DB, "e1", "olu", "mia", TickMinutes, now).code = "NOT_AUTHORIZED"
    /\ MuteUser(DB, "e1", "mia", "mia", TickMinutes, now).code = "NOT_AUTHORIZED"

\* Page sizes and cursors of the history reads.
HistoryLimits == {1, 50}

\* No history read by any user, with any cursor and page size, returns message i.
Hidden(db, i) ==
    \A v \in Users, b \in 0..Len(db.messages), l \in HistoryLimits :
        \A pg \in GetMessages(db, "e1", v, b, l).pages : i \notin pg.ids

\* What a delete gives in every state: refused for a plain member on another
\* user's message, a tombstone for the sender, and no tombstone in any read.
DeleteRules ==
    /\ \A u \in Users, i \in 1..Len(messages) : \A mi \in RowsOf(u) :
          LET r == ModerateMessage(DB, "e1", i, u, "delete")
          IN  /\ (members[mi].role = "MEMBER" /\ messages[i].senderId # u) =>
                    r.code = "NOT_AUTHORIZED" /\ r.db = DB
              /\ messages[i].senderId = u =>
                    /\ r.code = "OK"
                    /\ r.db.messages = [messages EXCEPT ![i].isDeleted = TRUE,
                                                        ![i].deletedBy = u]
                    /\ r.db.members = members
                    /\ Hidden(r.db, i)
    /\ \A i \in 1..Len(messages) : messages[i].isDeleted => Hidden(DB, i)

\* A tombstone stays: the record is kept, deleted, with its content.
TombstoneKept ==
    /\ Len(messages') >= Len(messages)
    /\ \A i \in 1..Len(messages) :
          messages[i].isDeleted =>
              messages'[i].isDeleted /\ messages'[i].content = messages[i].content

C10_DeletedTerminal ==
    [][\A i \in 1..Len(messages) :
          messages[i].isDeleted =>
              /\ messages'[i].isPinned = messages[i].isPinned
              /\ messages'[i].isDeleted
              /\ messages'[i].content = messages[i].content]_vars

\* The grace period of the event's chat is over.
Expired(e) == now > events[e].endDate + ChatGraceMs

\* No getOrJoinChat on an expired chat answers canJoin = true.
NoJoinAfterExpiry ==
    Expired("e1") => \A u \in Users : ~GetOrJoinChat(DB, "e1", u, now).c.res.canJoin

\* No step on an expired chat persists a message.
NoMessageAfterExpiry ==
    Expired("e1") => Len(messages') = Len(messages)

\* C11: once the current time is later than endDate + 24 h the chat is unusable
\* whatever its isActive flag: no getOrJoinChat returns canJoin = true and no
\* sendMessage persists a message, also for users who joined before.
C11_ExpiredUnusable ==
    []NoJoinAfterExpiry /\ [][NoMessageAfterExpiry]_vars

\* C12: every persisted message's replyTo is absent or names a message of the
\* same chat as the replying message.
C12_ReplySameChat ==
    \A i \in 1..Len(messages) :
        messages[i].replyToId # 0 =>
            /\ messages[i].replyToId \in 1..Len(messages)
            /\ messages[messages[i].replyToId].chatId = messages[i].chatId

\* C13: after every successful getOrJoinChat(event, user) the stored role of
\* the membership equals the role resolved from the current event and team
\* state, also when the team role changed after the membership was created.
C13_RoleRefreshed ==
    \A u \in Users :
        LET r == GetOrJoinChat(DB, "e1", u, now)
        IN  (r.c.pc = "done" /\ r.c.res.canJoin) =>
                r.db.members[r.c.memberId].role = RoleByState("e1", u)

\* C14: updateSettings changes the chat only for the event's organizer or a
\* member with role organizer; every other caller gets NOT_AUTHORIZED and the
\* store is unchanged.  On success only the supplied fields among slowMode and
\* isActive change, membersOnly and everything else stay, and the returned
\* slowMode and isActive are the stored ones.
C14_SettingsMerge ==
    \A c0 \in chats, u \in Users, s \in SettingsSlowModes, a \in SettingsActives :
        LET r == UpdateSettings(DB, c0.eventId, u, s, a)
            allowed == \/ events[c0.eventId].organizerId = u
                       \/ \E i \in 1..Len(members) : /\ members[i].chatId = c0.id
                                                     /\ members[i].userId = u
                                                     /\ members[i].role = "ORGANIZER"
        IN  IF allowed
            THEN /\ r.code = "OK"
                 /\ r.db.chats = (chats \ {c0}) \cup
                       {[c0 EXCEPT !.slowMode = IF s = <<>> THEN @ ELSE s[1],
                                   !.isActive = IF a = <<>> THEN @ ELSE a[1]]}
                 /\ r.db.members = members /\ r.db.messages = messages
                 /\ \E c1 \in r.db.chats :
                       /\ c1.id = c0.id /\ c1.membersOnly = c0.membersOnly
                       /\ r.ret = [slowMode |-> c1.slowMode, isActive |-> c1.isActive]
            ELSE r.code = "NOT_AUTHORIZED" /\ r.db = DB

\* C14 witness: the organizer has set a slow mode and switched the chat off;
\* a further update that supplies isActive alone keeps the slow mode, and the
\* moderator's update is refused.
C14_Witness ==
    /\ \E c \in chats : c.slowMode = TickSeconds /\ ~c.isActive /\ c.membersOnly
    /\ LET r == UpdateSettings(DB, "e1", Organizer, <<>>, <<TRUE>>)
       IN  r.code = "OK" /\ r.ret = [slowMode |-> TickSeconds, isActive |-> TRUE]
    /\ UpdateSettings(DB, "e1", "mia", <<0>>, <<TRUE>>).code = "NOT_AUTHORIZED"


\* C15: lazy chat creation is idempotent and atomic.  When getOrJoinChat calls
\* for an event without a chat overlap, exactly one chat exists afterwards,
\* with the defaults isActive = true, slowMode = 0, membersOnly = true, every
\* call gets that chat in hand, and no call ends in a storage fault of the
\* chat insert (a failed call that never had a chat row in hand).
C15_AtomicCreate ==
    /\ \A c1, c2 \in chats : c1.eventId = c2.eventId => c1 = c2
    /\ \A c \in chats : c.isActive /\ c.slowMode = 0 /\ c.membersOnly
    /\ \A k \in CallIds : calls[k].pc = "failed" => calls[k].chat.eventId # NULL
    /\ \A k \in CallIds : calls[k].pc = "done" =>
          \E c \in chats : c.eventId = calls[k].e /\ calls[k].chat.id = c.id


\* The rooms connection k is in.
RoomsOf(k) == {e \in SockEvents : k \in rooms[e]}

\* A connection is in no room but the one its event id names.
OneRoom ==
    \A k \in Conns :
        RoomsOf(k) = IF socks[k].eventId = NULL THEN {} ELSE {socks[k].eventId}

\* When a chat:join enters its room, the connection is in that room alone.
EnterMoves ==
    \A k \in Conns, j \in JoinSlots :
        (socks[k].joins[j].pc = "joining" /\ socks'[k].joins[j].pc = "entered") =>
            {e \in SockEvents : k \in rooms'[e]} = {socks[k].joins[j].req}

ErrorToSenderOnly(k) ==
    /\ Cardinality(out') = 1
    /\ \A m \in out' : m.ev = "chat:error" /\ m.to = {k}

\* C17: for every chat:message on a connection, a message that sendMessage
\* has created is delivered once to every connection that is in the room of
\* its chat, the sender's connections included; when sendMessage fails, or the
\* connection has joined no room (code NOT_JOINED), one chat:error goes to the
\* sending connection and nothing to any other connection.
C17_Delivery ==
    [][\A k \in Conns :
          /\ ChatMessageDone(k) =>
                IF socks[k].msg.code = "OK"
                THEN /\ Cardinality(out') = 1
                     /\ \A m \in out' : /\ m.ev = "chat:message"
                                        /\ m.to = rooms[socks[k].msg.chat]
                ELSE ErrorToSenderOnly(k)
          /\ (socks[k].eventId = NULL /\ \E n \in MessageLengths :
                                            ChatMessageCall(k, n, "TEXT", 0)) =>
                /\ ErrorToSenderOnly(k)
                /\ \A m \in out' : m.code = "NOT_JOINED"]_vars


\* The statuses the REST facade may answer a failure code with: its family,
\* and for a rule not named by a family anything but a server error.
Family(code) ==
    CASE code \in {"CHAT_NOT_FOUND", "NOT_FOUND"} -> {404}
      [] code = "NOT_AUTHORIZED" -> {403}
      [] code \in {"USER_MUTED", "SLOW_MODE"} -> {429}
      [] code \in {"MESSAGE_TOO_LONG", "INVALID_MESSAGE", "INVALID_ACTION",
                   "INVALID_DURATION"} -> {400}
      [] OTHER -> 400..499

InFamily(a) == a.code # "OK" => a.status \in Family(a.code)

\* C18: on every chat endpoint the REST facade answers a failure with the
\* status family of its code: not found 404, NOT_AUTHORIZED 403, USER_MUTED
\* and SLOW_MODE 429, malformed input 400, and no violated rule with 500.
C18_StatusFamilies ==
    \A u \in Users :
        /\ \A n \in RestLengths, ty \in SendTypes :
              InFamily(ControllerSendMessage(DB, "e1", u, n, ty, 0, now))
        /\ \A i \in 1..(MaxMsgs + 1), a \in RestActions :
              InFamily(ControllerModerateMessage(DB, "e1", i, u, a))
        /\ \A v \in Users, d \in RestDurations :
              InFamily(ControllerMuteUser(DB, "e1", v, u, d, now))
        /\ \A s \in SettingsSlowModes, b \in SettingsActives :
              InFamily(ControllerUpdateSettings(DB, "e1", u, s, b))
        /\ \A i \in 0..MaxMsgs : InFamily(ControllerGetMessages(DB, "e1", u, i, 50))


\* The roles with the pin, delete-any and mute permissions.
Moderators == {"MODERATOR", "ORGANIZER"}

\* The store with the mute of membership i cleared, if it has run out.
ExpiredMuteCleared(i) ==
    IF members[i].isMuted /\ ~MuteInForce(members[i], now)
    THEN [DB EXCEPT !.members = ClearMute(@, i)]
    ELSE DB

\* An announcement succeeds for an organizer membership only; sent to an
\* active chat by any other member whose mute is not in force it is refused
\* with NOT_AUTHORIZED, leaving the store after(i); a caller without a
\* membership is refused and the store is unchanged.
AnnounceRule(after(_)) ==
    \A u \in Users :
        LET r == SendMessage(DB, "e1", u, 1, "ANNOUNCEMENT", 0, now)
        IN  /\ r.code = "OK" => \E i \in RowsOf(u) : members[i].role = "ORGANIZER"
            /\ (\A c \in chats : c.isActive) =>
                  /\ RowsOf(u) = {} => r.code = "NOT_AUTHORIZED" /\ r.db = DB
                  /\ \A i \in RowsOf(u) :
                        (members[i].role # "ORGANIZER" /\ ~MuteInForce(members[i], now)) =>
                            r.code = "NOT_AUTHORIZED" /\ r.db = after(i)

\* Pin, unpin and the deletion of another user's message succeed for
\* moderators and organizers only, and muting is possible for them only; for
\* any other caller they end in NOT_AUTHORIZED and leave the store unchanged.
ModerationRule ==
    \A u \in Users :
        /\ \A m \in 1..Len(messages), a \in ModActions :
              (a = "delete" => messages[m].senderId # u) =>
                  LET r == ModerateMessage(DB, "e1", m, u, a)
                  IN  IF \E i \in RowsOf(u) : members[i].role \in Moderators
                      THEN r.code = "OK"
                      ELSE r.code = "NOT_AUTHORIZED" /\ r.db = DB
        /\ \A v \in Users, d \in MuteDurations :
              LET r == MuteUser(DB, "e1", v, u, d, now)
              IN  IF \E i \in RowsOf(u) : members[i].role \in Moderators
                  THEN r.code \in {"OK", "NOT_AUTHORIZED", "NOT_FOUND"}
                  ELSE r.code = "NOT_AUTHORIZED" /\ r.db = DB

\* The store as it is.
Untouched(i) == DB

\* C19: the role-to-permission matrix is enforced for every role:
\* announcements succeed for organizer memberships only, pin, unpin, the
\* deletion of another user's message and muting for moderators and organizers
\* only; in each other case the operation fails with NOT_AUTHORIZED and
\* changes no stored state.
C19_Matrix == AnnounceRule(Untouched) /\ ModerationRule

\* C19 as the code has it: as above, except that a refused announcement has
\* cleared the sender's mute when that mute had run out.
C19_MatrixLazyUnmute == AnnounceRule(ExpiredMuteCleared) /\ ModerationRule

\* C19 witness: tom, a plain member, carries a mute that has run out and a
\* message of mia is stored: his announcement, his pin and his deletion of
\* her message are all refused with NOT_AUTHORIZED, and so is his mute of her.
C19_Witness ==
    /\ \E i \in RowsOf("tom") : /\ members[i].role = "MEMBER"
                                /\ members[i].isMuted
                                /\ ~MuteInForce(members[i], now)
                                /\ \A c \in chats : c.isActive
    /\ SendMessage(DB, "e1", "tom", 1, "ANNOUNCEMENT", 0, now).code = "NOT_AUTHORIZED"
    /\ \E m \in 1..Len(messages) :
          /\ messages[m].senderId = "mia"
          /\ ModerateMessage(DB, "e1", m, "tom", "pin").code = "NOT_AUTHORIZED"
          /\ ModerateMessage(DB, "e1", m, "tom", "delete").code = "NOT_AUTHORIZED"
          /\ ModerateMessage(DB, "e1", m, "olu", "delete").code = "OK"
    /\ MuteUser(DB, "e1", "mia", "tom", TickMinutes, now).code = "NOT_AUTHORIZED"


\* The page sizes asked for and the cursors given: none (0), or one of the
\* two oldest or two newest messages.
PageLimits == {1, 2, MaxPage, MaxPage + 1}
Cursors == {0} \cup DeleteIds

\* The messages of the chat of e1 that are not deleted.
Live == {i \in 1..Len(messages) : messages[i].chatId = "e1" /\ ~messages[i].isDeleted}

\* C20: for a member, getMessages returns the min(limit, 100) newest of the
\* non-deleted messages of the chat that are strictly older than the cursor
\* message (of all of them without a cursor; all there are when there are
\* fewer), in ascending creation time, and hasMore is true exactly when a
\* non-deleted message of the chat is older than the oldest message returned;
\* a caller without a membership gets NOT_AUTHORIZED.
C20_History ==
    \A u \in Users, b \in Cursors, l \in PageLimits :
        LET r     == GetMessages(DB, "e1", u, b, l)
            older == IF b = 0 THEN Live
                     ELSE {i \in Live : messages[i].createdAt < messages[b].createdAt}
            n     == Min(Min(l, 100), Cardinality(older))
        IN  IF RowsOf(u) = {} THEN r.code = "NOT_AUTHORIZED"
            ELSE /\ r.code = "OK"
                 /\ r.pages # {}
                 /\ \A p \in r.pages :
                       /\ p.ids \subseteq older
                       /\ Cardinality(p.ids) = n
                       /\ \A i \in p.ids, j \in older \ p.ids :
                             messages[j].createdAt <= messages[i].createdAt
                       /\ Len(p.messages) = n
                       /\ {p.messages[x] : x \in 1..n} = p.ids
                       /\ \A x \in 1..(n - 1) :
                             messages[p.messages[x]].createdAt
                                <= messages[p.messages[x + 1]].createdAt
                       /\ p.hasMore <=>
                             /\ p.ids # {}
                             /\ \E k \in Live : \A i \in p.ids :
                                   messages[k].createdAt < messages[i].createdAt

\* C20 witness: the chat holds one message more than a page and the oldest
\* one is deleted: a read of 101 messages returns the 100 that are left, oldest
\* first, with nothing more to come, and a read of one message before message
\* 3 returns message 2.
C20_Witness ==
    /\ Len(messages) = MaxPage + 1
    /\ messages[1].isDeleted
    /\ Cardinality(Live) = MaxPage
    /\ \A p \in GetMessages(DB, "e1", "tom", 0, MaxPage + 1).pages :
          /\ Cardinality(p.ids) = MaxPage
          /\ p.messages[1] = 2
          /\ ~p.hasMore
    /\ GetMessages(DB, "e1", "tom", 3, 1).pages =
          {[ids |-> {2}, messages |-> <<2>>, hasMore |-> FALSE]}
    /\ GetMessages(DB, "e1", "tom", MaxPage + 1, 2).pages =
          {[ids |-> {MaxPage - 1, MaxPage}, messages |-> <<MaxPage - 1, MaxPage>>,
            hasMore |-> TRUE]}


\* User u may join the chat of e as things stand: the chat is on (or not yet
\* made), the event is within its grace period, and u is the organizer, an
\* active co-host or manager, or holds a ticket.
Eligible(e, u) ==
    /\ ~NotJoinable(e)
    /\ \/ RoleByState(e, u) # "MEMBER"
       \/ <<e, u>> \in tickets
       \/ \E c \in chats : c.eventId = e /\ ~c.membersOnly

\* The sender of every stored message holds a membership in its chat.
SendersAreMembers ==
    \A i \in 1..Len(messages) :
        \E j \in 1..Len(members) : /\ members[j].chatId = messages[i].chatId
                                   /\ members[j].userId = messages[i].senderId

\* Memberships are never removed, and one is added only for a user who was
\* eligible to join when it was added.
MembersByJoinOnly ==
    /\ Len(members') >= Len(members)
    /\ \A j \in 1..Len(members) : /\ members'[j].chatId = members[j].chatId
                                  /\ members'[j].userId = members[j].userId
    /\ \A j \in (Len(members) + 1)..Len(members') :
          Eligible(members'[j].chatId, members'[j].userId)

\* A message is added only for a sender who holds a membership already.
SendNeedsMembership ==
    \A i \in (Len(messages) + 1)..Len(messages') :
        \E j \in 1..Len(members) : /\ members[j].chatId = messages'[i].chatId
                                   /\ members[j].userId = messages'[i].senderId

\* C21: every persisted message was sent by a user who held a membership in
\* that chat when it was sent, and memberships are created only by a
\* getOrJoinChat call that answered canJoin = true: a user all of whose join
\* attempts were refused has no message in the chat, sent over REST or over
\* the socket.
C21_MembersOnlySend ==
    []SendersAreMembers /\ [][MembersByJoinOnly /\ SendNeedsMembership]_vars

\* C21 witness: tom has a message in the chat of e1; his chat:join for e2 has
\* just been refused for want of a ticket, he holds no membership there and a
\* message of his to e2 is refused.
C21_Witness ==
    /\ \E i \in 1..Len(messages) : messages[i].senderId = "tom" /\ messages[i].chatId = "e1"
    /\ \E c \in chats : c.eventId = "e2"
    /\ \A j \in 1..Len(members) : ~(members[j].chatId = "e2" /\ members[j].userId = "tom")
    /\ socks[1].eventId = "e1"
    /\ \E m \in out : m.ev = "chat:error" /\ m.code = "NO_TICKET" /\ m.room = "e2"
    /\ SendMessage(DB, "e2", "tom", 1, "TEXT", 0, now).code = "NOT_AUTHORIZED"


\* The membership rows of the chat of e1 seen within the last five minutes.
FreshIds ==
    {members[i].id : i \in {j \in 1..Len(members) :
        members[j].chatId = "e1" /\ now - members[j].lastSeenAt <= OnlineWindowMs}}

\* The row of user u in the chat of e among the rows ms.
RowOf(ms, e, u) ==
    ms[CHOOSE i \in 1..Len(ms) : ms[i].chatId = e /\ ms[i].userId = u]

MemberLimits == {1, 2, 20}

\* What getMembers answers is what the lastSeenAt of the rows says.
MembersByLastSeen ==
    \A onlineOnly \in BOOLEAN, limit \in MemberLimits :
        LET g == GetMembers(DB, "e1", "tom", onlineOnly, limit, now)
        IN  /\ g.code = "OK"
            /\ g.results # {}
            /\ \A r \in g.results :
                  LET ids == {r.members[a].id : a \in DOMAIN r.members}
                  IN  /\ r.online = Cardinality(FreshIds)
                      /\ \A a \in DOMAIN r.members :
                            r.members[a].isOnline <=> r.members[a].id \in FreshIds
                      /\ Cardinality(ids) = Len(r.members)
                      /\ IF onlineOnly
                         THEN /\ ids \subseteq FreshIds
                              /\ Len(r.members) = Min(limit, Cardinality(FreshIds))
                         ELSE Len(r.members) = Min(limit, r.total)

\* What each of the three operations would do to the caller's row now.
SeenNow ==
    \A u \in Users :
        /\ LET r == GetOrJoinChat(DB, "e1", u, now)
           IN  r.c.res.canJoin =>
                  /\ RowOf(r.db.members, "e1", u).lastSeenAt = now
                  /\ r.c.res.chat[1].onlineCount =
                        Cardinality({i \in 1..Len(r.db.members) :
                            /\ r.db.members[i].chatId = "e1"
                            /\ now - r.db.members[i].lastSeenAt <= OnlineWindowMs})
        /\ LET r == SendMessage(DB, "e1", u, 1, "TEXT", 0, now)
           IN  r.code = "OK" => RowOf(r.db.members, "e1", u).lastSeenAt = now
        /\ RowOf(UpdateLastSeen(DB, "e1", u, now).members, "e1", u).lastSeenAt = now

\* A chat:read of a joined connection sets the row of its user to the current
\* time and emits nothing.
ReadIsSilent ==
    \A k \in Conns :
        (socks[k].eventId # NULL /\ ChatRead(k)) =>
            /\ out' = {}
            /\ RowOf(members', socks[k].eventId, socks[k].user).lastSeenAt = now
            /\ \A i \in 1..Len(members) :
                  members[i].userId # socks[k].user => members'[i] = members[i]

\* C22: presence is derived from lastSeenAt only: getOrJoinChat's onlineCount
\* and getMembers (online count, isOnline flag, online-only filter) count a
\* member as online if and only if their lastSeenAt is within the last five
\* minutes of the query time; a successful join, a successful sendMessage and a
\* chat:read heartbeat each set the caller's lastSeenAt to the current time,
\* and chat:read broadcasts nothing.
C22_Presence ==
    [](MembersByLastSeen /\ SeenNow) /\ [][ReadIsSilent]_vars

\* C22 witness: seven and a half minutes in, the organizer's joined connection
\* has just been seen, mia was last seen exactly five minutes ago and tom at
\* the start: two of the three members are online.
C22_Witness ==
    /\ now = 3 * HalfWindowMs
    /\ socks[1].eventId = "e1"
    /\ RowOf(members, "e1", Organizer).lastSeenAt = now
    /\ RowOf(members, "e1", "mia").lastSeenAt = HalfWindowMs
    /\ RowOf(members, "e1", "tom").lastSeenAt = 0
    /\ \E r \in GetMembers(DB, "e1", "tom", TRUE, 20, now).results :
          r.total = 3 /\ r.online = 2 /\ Len(r.members) = 2


\* C23: the chat info of a successful getOrJoinChat carries the live member
\* count: memberCount equals the number of membership rows of the chat when
\* the call returns, the caller included, also on the caller's first join; so
\* onlineCount <= memberCount in every returned chat info.
C23_LiveCount ==
    \A u \in Users :
        LET r == GetOrJoinChat(DB, "e1", u, now)
        IN  (r.c.pc = "done" /\ r.c.res.canJoin) =>
                /\ r.c.res.chat[1].memberCount = CountMembers(r.db.members, "e1")
                /\ r.c.res.chat[1].onlineCount <= r.c.res.chat[1].memberCount


\* User u holds a membership in the chat of event e among the rows ms.
IsMember(ms, e, u) ==
    \E j \in 1..Len(ms) : ms[j].chatId = e /\ ms[j].userId = u

\* C24: after BookingService.confirmOrder succeeds for a user's order on an
\* event, that user has a membership in the event's chat, for every order that
\* can be confirmed, one confirmed without attendee records included; a
\* failure of the chat join never fails the confirmation.
C24_AutoJoin ==
    [][\A o \in 1..Len(orders) :
          (orders[o].status = "PENDING" /\ orders'[o].status = "CONFIRMED") =>
              IsMember(members', orders[o].eventId, orders[o].userId)]_vars

\* C25: right after EventService.create returns, a chat exists for the new
\* event and the organizer holds a membership in it with role ORGANIZER,
\* before any getOrJoinChat call is made.
C25_ChatWithEvent ==
    \A e \in DOMAIN events :
        /\ HasChat(chats, e)
        /\ \E j \in 1..Len(members) : /\ members[j].chatId = e
                                      /\ members[j].userId = events[e].organizerId
                                      /\ members[j].role = "ORGANIZER"


\* C27: slow mode is only a soft limit under concurrency. What holds is that
\* every message created for a plain member by a call that read slowMode > 0
\* comes at least slowMode seconds after the latest message of the sender
\* that the call's own check read; two overlapping calls of one member can
\* both pass the check before either commits, and then two messages of the
\* member are persisted less than slowMode seconds apart (the witness).
C27_SoftLimit ==
    [][\A k \in SendIds :
          (/\ sends[k].pc = "create"
           /\ sends'[k].pc = "seen"
           /\ sends[k].chat.slowMode > 0
           /\ sends[k].member.role = "MEMBER") =>
              /\ messages'[sends'[k].id].senderId = sends[k].u
              /\ \/ sends[k].lastAt = 0 - 1
                 \/ now - sends[k].lastAt >= sends[k].chat.slowMode * 1000]_vars

\* C27 witness: the chat has slowMode > 0, tom is a plain member, both of his
\* calls read that slow mode and passed its check, and their two messages are
\* stored less than slowMode seconds apart.
C27_Witness ==
    /\ \A k \in SendIds : /\ sends[k].pc \in {"seen", "done"}
                          /\ sends[k].u = "tom"
                          /\ sends[k].chat.slowMode > 0
                          /\ sends[k].member.role = "MEMBER"
    /\ \E c \in chats : c.eventId = "e1" /\ c.slowMode > 0
    /\ \E i, j \in 1..Len(messages) :
          /\ i < j
          /\ messages[i].senderId = "tom" /\ messages[j].senderId = "tom"
          /\ messages[i].chatId = "e1" /\ messages[j].chatId = "e1"
          /\ messages[j].createdAt - messages[i].createdAt < TickSeconds * 1000


\* C30: a mute set by a successful muteUser with a positive duration stays in
\* effect until its mutedUntil passes or muteUser with duration 0 clears it:
\* a member who is muted with a mutedUntil still ahead is unmuted only by a
\* muteUser call, whatever sendMessage calls of the member are in flight.
C30_MuteStays ==
    [][\A i \in 1..Len(members) :
          (/\ members[i].isMuted
           /\ members[i].mutedUntil # NoTime
           /\ members[i].mutedUntil > now
           /\ ~members'[i].isMuted) =>
              \E a \in Users : Mute(members[i].chatId, members[i].userId, a, 0)]_vars


\* C26: within one room, chat:message broadcasts are emitted in the order in
\* which the records of their messages were committed: when the broadcast for
\* a message is emitted, no message of the same chat that was committed
\* before it is still waiting for its broadcast.
C26_BroadcastOrder ==
    [][\A k \in Conns :
          (sends[k].pc = "done" /\ ChatMessageEnd(k)) =>
              \A j \in Conns \ {k} :
                  ~(/\ sends[j].pc \in {"seen", "done"}
                    /\ sends[j].chat.id = sends[k].chat.id
                    /\ sends[j].id < sends[k].id)]_vars


\* C29: after any sequence of join, leave and disconnect events, a user is in
\* the online-tracking set of a room if and only if at least one of that
\* user's live connections is joined to the room; when one of two connections
\* of a user leaves the room, the user stays in the set.
C29_OnlineSet ==
    \A u \in SockUsers, e \in SockEvents :
        u \in roomOnlineUsers[e] <=>
            \E k \in Conns : /\ socks[k].state = "open"
                             /\ socks[k].user = u
                             /\ k \in rooms[e]


\* A chat:typing call on a joined connection sends chat:typing to the rest of
\* the room and leaves the connection's one timer due three seconds later; on
\* a connection that has joined no room it sends nothing and arms nothing.
TypingCall ==
    \A k \in Conns :
        ChatTyping(k) =>
            IF socks[k].eventId = NULL
            THEN out' = {} /\ socks' = socks
            ELSE /\ out' = {Emit("chat:typing", socks[k].eventId, socks[k].user, NULL,
                                 rooms[socks[k].eventId] \ {k})}
                 /\ socks'[k].typing = [room |-> socks[k].eventId, due |-> now + 3000]

\* chat:typing:stop is emitted (by a step of a connection) only when the timer
\* of the sender's connection is due, to the rest of the room, and leaves that
\* connection without a timer.
StopWhenDue ==
    \A m \in out' :
        (m.ev = "chat:typing:stop" /\ (socks' # socks \/ out' # out)) =>
            \E k \in Conns : /\ socks[k].user = m.user
                             /\ socks[k].typing.room = m.room
                             /\ socks[k].typing.due = now
                             /\ socks'[k].typing = NoTimer
                             /\ m.to = rooms[m.room] \ {k}
                             /\ Cardinality(out') = 1

\* A timer changes only by a chat:typing call or by going off.
TimerSteps ==
    \A k \in Conns :
        socks'[k].typing # socks[k].typing => ChatTyping(k) \/ TypingStop(k)

\* No timer is overdue and none is due later than three seconds from now.
TimerDue ==
    \A k \in Conns :
        socks[k].typing.due # NoTime =>
            now <= socks[k].typing.due /\ socks[k].typing.due <= now + 3000

\* C28: typing indicators are debounced per connection: each chat:typing call
\* on a joined connection broadcasts chat:typing to the rest of the room and
\* re-arms a single 3-second timer, so a burst of calls less than 3 seconds
\* apart is followed by exactly one chat:typing:stop, emitted 3 seconds after
\* the last call of the burst; a connection that has joined no room
\* broadcasts nothing.
C28_TypingDebounce ==
    []TimerDue /\ [][TypingCall /\ StopWhenDue /\ TimerSteps]_vars

\* C28 witness: four seconds in, the timer of the organizer's connection has
\* just gone off: chat:typing:stop has gone to tom's connection in the room
\* and to nobody else, and no timer is left on the organizer's connection.
C28_Witness ==
    /\ now = 4000
    /\ socks[1].eventId = "e1"
    /\ socks[1].typing = NoTimer
    /\ out = {Emit("chat:typing:stop", "e1", Organizer, NULL, {2})}

====
